---- MODULE Spec2Model ----
(***************************************************************************)
(* Sync & reconciliation engine of the Turn 14 / Shopify merchant app:     *)
(*   SyncEngine, SyncScheduleManager  app/services/sync-engine.server.js   *)
(*   SyncScheduler                    (scheduler service, unnamed/part_009)*)
(*   route actions runSync, deleteProduct                                  *)
(* Time is counted in hours.  Every await of the code is a step boundary   *)
(* of the caller that executes it; a caller is one of Procs.               *)
(***************************************************************************)
EXTENDS Integers, Sequences, FiniteSets, TLC

VARIABLES
    now,        \* wall clock, in hours
    config,     \* Turn14Config row of the shop
    products,   \* Turn14ImportedProduct table: row id -> row
    nextId,     \* next Turn14ImportedProduct row id
    jobs,       \* Turn14SyncJob table, in creation order (job id = index)
    schedules,  \* Turn14SyncSchedule table: schedule id -> row
    listings,   \* storefront listings created so far, as a sequence of SKUs
    run,        \* per caller: position in the code and its local variables
    feed,       \* the distributor's answer to getItemCompatibility, per SKU
    feedChanges, \* how often the distributor's compatibility data changed
    compat,     \* Turn14VehicleCompatibility table, in creation order
    ymm,        \* per caller of YMMService: position and local variables
    synced,     \* per SKU: the last return of syncProductCompatibility
    garages,    \* CustomerVehicleGarage table: customer id -> row
    vehicles,   \* CustomerVehicle table: row id -> row
    nextVehicle, \* next CustomerVehicle row id
    reminders,  \* VehicleMaintenanceReminder table, as a sequence of rows
    alerts,     \* VehiclePriceAlert table: row id -> row
    call        \* per caller of VehicleGarageService: position and local variables

ymmVars == <<feed, feedChanges, compat, ymm, synced>>
garageVars == <<garages, vehicles, nextVehicle, reminders, alerts, call>>
vars == <<now, config, products, nextId, jobs, schedules, listings, run,
          ymmVars, garageVars>>

----------------------------------------------------------------------------
(* Bounds of the model *)

MaxTime == 1
MaxJobs == 1
MaxRowId == 3
MaxDeletes == 1
MaxChanges == 1
MaxVehicleId == 6
MaxHour == 50

(* Values *)

TheShop == "shop1"
OtherShop == "shop2"
Procs == {1, 2}
NoTime == -1
NoSchedule == 0
NoJob == 0
SyncTypes == {"inventory", "pricing", "products", "full"}
RequestedTypes == SyncTypes \cup {"bogus"}
Quantities == {0, 5}
Prices == {10, 12}
Markups == {0, 20}
Undefined == -1
CatalogItem(sku) == [id |-> sku, price |-> 10, inventory_quantity |-> 5]
Catalog == [b1 |-> <<CatalogItem("A100"), CatalogItem("C300")>>,
            b2 |-> <<CatalogItem("C300")>>]
PageSize == 50
BrandChoices == {<<>>, <<"b1", "b2">>}

RECURSIVE SeqOfSet(_)
SeqOfSet(S) ==
    IF S = {} THEN <<>>
    ELSE LET m == CHOOSE x \in S : \A y \in S : x <= y
         IN <<m>> \o SeqOfSet(S \ {m})

----------------------------------------------------------------------------
(* JavaScript numbers: IEEE-754 binary64, round to nearest, ties to even.     *)
(* A positive number is [m, e]: m its significand as a sequence of bits, most *)
(* significant first, without leading or trailing zeros, and e the weight of  *)
(* the last bit, so that the value is m * 2^e.  Zero is [<<>>, 0].            *)

Precision == 53
FractionBits == 70

\* the one element of a singleton; {f(v) : v \in {x}} computes x once for f
Only(S) == CHOOSE v \in S : TRUE

Ones(b) == {i \in 1..Len(b) : b[i] = 1}

First(I) == CHOOSE i \in I : \A j \in I : i <= j

Last(I) == CHOOSE i \in I : \A j \in I : i >= j

Zeros(n) == [i \in 1..n |-> 0]

StripLeading(b) ==
    Only({IF I = {} THEN <<>> ELSE SubSeq(v, First(I), Len(v)) :
             v \in {b}, I \in {Ones(b)}})

TrailingZeros(b) ==
    Only({IF I = {} THEN Len(b) ELSE Len(b) - Last(I) : I \in {Ones(b)}})

PadLeft(b, n) == Zeros(n - Len(b)) \o b

SumBit(t) == [bits |-> <<t % 2>>, carry |-> t \div 2]

JoinSum(high, low) == [bits |-> high.bits \o low.bits, carry |-> high.carry]

\* positions lo..hi of a + b + carry, the low half first
RECURSIVE AddRange(_, _, _, _, _)
RECURSIVE AddHigh(_, _, _, _, _)
AddRange(a, b, lo, hi, carry) ==
    IF lo = hi THEN SumBit(a[lo] + b[lo] + carry)
    ELSE Only({AddHigh(a, b, lo, (lo + hi) \div 2, low) :
                  low \in {AddRange(a, b, (lo + hi) \div 2 + 1, hi, carry)}})

AddHigh(a, b, lo, mid, low) ==
    Only({JoinSum(high, low) : high \in {AddRange(a, b, lo, mid, low.carry)}})

\* sum of two bit sequences of the same length
AddPadded(a, b) ==
    IF a = <<>> THEN <<>>
    ELSE Only({StripLeading(<<sum.carry>> \o sum.bits) :
                  sum \in {AddRange(a, b, 1, Len(a), 0)}})

\* sum of two bit sequences that end at the same weight
AddBits(a, b) ==
    Only({AddPadded(PadLeft(a, n), PadLeft(b, n)) :
             n \in {IF Len(a) > Len(b) THEN Len(a) ELSE Len(b)}})

ShiftLeft(b, n) == IF b = <<>> THEN <<>> ELSE b \o Zeros(n)

RECURSIVE MulBits(_, _)
MulBits(a, b) ==
    IF b = <<>> THEN <<>>
    ELSE IF Len(b) = 1 THEN (IF b[1] = 1 THEN a ELSE <<>>)
    ELSE Only({AddBits(ShiftLeft(high, Len(b) - Len(b) \div 2), low) :
                  high \in {MulBits(a, SubSeq(b, 1, Len(b) \div 2))},
                  low \in {MulBits(a, SubSeq(b, Len(b) \div 2 + 1, Len(b)))}})

RECURSIVE NatBits(_)
NatBits(n) == IF n = 0 THEN <<>> ELSE Append(NatBits(n \div 2), n % 2)

JoinFrac(first, second) ==
    [bits |-> first.bits \o second.bits, rem |-> second.rem]

\* the first k bits after the binary point of r / d (r < d), with the remainder
RECURSIVE FracBits(_, _, _)
RECURSIVE FracRest(_, _, _)
FracBits(r, d, k) ==
    IF k = 0 THEN [bits |-> <<>>, rem |-> r]
    ELSE IF k = 1
    THEN [bits |-> <<IF 2 * r >= d THEN 1 ELSE 0>>,
          rem |-> IF 2 * r >= d THEN 2 * r - d ELSE 2 * r]
    ELSE Only({FracRest(first, d, k - k \div 2) :
                  first \in {FracBits(r, d, k \div 2)}})

FracRest(first, d, k) ==
    Only({JoinFrac(first, second) : second \in {FracBits(first.rem, d, k)}})

\* canonical form: no trailing zero in the significand
Canonical(m, e) ==
    IF m = <<>> THEN [m |-> <<>>, e |-> 0]
    ELSE Only({[m |-> SubSeq(m, 1, Len(m) - z), e |-> e + z] :
                  z \in {TrailingZeros(m)}})

\* m rounded to its first 53 bits, rest being the bits cut off
RoundAt(keep, rest, e) ==
    IF rest[1] = 1 /\ ((\E i \in 2..Len(rest) : rest[i] = 1) \/ keep[Precision] = 1)
    THEN Only({Canonical(up, e + Len(rest)) : up \in {AddBits(keep, <<1>>)}})
    ELSE Canonical(keep, e + Len(rest))

\* rounding of the exact value m * 2^e to 53 significant bits
Round(m, e) ==
    IF Len(m) <= Precision THEN Canonical(m, e)
    ELSE RoundAt(SubSeq(m, 1, Precision), SubSeq(m, Precision + 1, Len(m)), e)

\* the number nearest to the exact quotient whose integer part is whole and
\* whose fraction is f
RoundQuotient(whole, f) ==
    IF f.rem = 0 THEN Round(StripLeading(whole \o f.bits), -FractionBits)
    ELSE Round(StripLeading(whole \o f.bits \o <<1>>), -FractionBits - 1)

\* the number nearest to n / d, for naturals n and d > 0
Quotient(n, d) ==
    Only({Only({RoundQuotient(whole, f) : whole \in {NatBits(n \div d)}}) :
             f \in {FracBits(n % d, d, FractionBits)}})

Num(n) == Quotient(n, 1)

IsZero(x) == x.m = <<>>

Sum(m, e) == Only({Round(v, e) : v \in {m}})

Plus(x, y) ==
    IF IsZero(x) THEN y
    ELSE IF IsZero(y) THEN x
    ELSE Only({Sum(AddBits(x.m \o Zeros(x.e - e), y.m \o Zeros(y.e - e)), e) :
                  e \in {IF x.e < y.e THEN x.e ELSE y.e}})

Times(x, y) ==
    IF IsZero(x) \/ IsZero(y) THEN [m |-> <<>>, e |-> 0]
    ELSE Sum(IF Len(x.m) < Len(y.m) THEN MulBits(y.m, x.m)
             ELSE MulBits(x.m, y.m), x.e + y.e)

\* the first position where two bit sequences of one length differ, or 0
FirstDifference(a, b) ==
    Only({IF I = {} THEN 0 ELSE First(I) : I \in {{i \in DOMAIN a : a[i] # b[i]}}})

\* a <= b for significands of one weight
LeqBits(a, b) ==
    IF Len(a) # Len(b) THEN Len(a) < Len(b)
    ELSE Only({d = 0 \/ a[d] < b[d] : d \in {FirstDifference(a, b)}})

\* x <= y
Leq(x, y) ==
    IF IsZero(x) THEN TRUE
    ELSE IF IsZero(y) THEN FALSE
    ELSE Only({LeqBits(x.m \o Zeros(x.e - e), y.m \o Zeros(y.e - e)) :
                  e \in {IF x.e < y.e THEN x.e ELSE y.e}})

\* the value of a table of <<argument, result>> pairs at an argument
Lookup(table, arg) == (CHOOSE t \in table : t[1] = arg)[2]

\* the numbers the distributor's JSON carries as prices
PriceValues == {<<n, Num(n)>> : n \in Prices}

PriceValue(n) == Lookup(PriceValues, n)

----------------------------------------------------------------------------
(* prisma/schema.prisma *)

SyncJobColumns ==
    {"id", "shop", "scheduleId", "syncType", "status", "startTime", "endTime",
     "totalItems", "processedItems", "successItems", "failedItems",
     "errorMessage", "results", "createdAt"}

\* prisma.<model>.update({data}): an argument that is no column of the model
\* is rejected with a validation error before anything is written.
PrismaUpdateJob(table, id, data) ==
    IF DOMAIN data \subseteq SyncJobColumns
    THEN [ok |-> TRUE, table |-> [table EXCEPT ![id] = data @@ @], error |-> ""]
    ELSE [ok |-> FALSE, table |-> table, error |-> "Unknown argument"]

\* @@unique([shop, turn14Sku]) of Turn14ImportedProduct
UniqueViolation(table, shop, sku) ==
    \E i \in DOMAIN table : table[i].shop = shop /\ table[i].sku = sku

----------------------------------------------------------------------------
(* SyncEngine helpers *)

NewJob(shop, scheduleId, syncType) ==
    [shop |-> shop, scheduleId |-> scheduleId, syncType |-> syncType,
     status |-> "pending", startTime |-> NoTime, endTime |-> NoTime,
     totalItems |-> 0, processedItems |-> 0, successItems |-> 0,
     failedItems |-> 0, errorMessage |-> "", results |-> <<>>]

RunningUpdates(t) == [status |-> "running", startTime |-> t]

\* { status, endTime, ...results, results: JSON.stringify(results) }
CompletedUpdates(t, results) ==
    [results |-> <<results>>] @@ results @@ [status |-> "completed", endTime |-> t]

\* variant: the catch block forgets the error message
FailedUpdates_NoMessage(t, message) == [status |-> "failed", endTime |-> t]

FailedUpdates(t, message) ==
    [status |-> "failed", endTime |-> t, errorMessage |-> message]

\* variant: the known columns are written although the update is rejected
updateSyncJob_WritesThenThrows(table, id, updates) ==
    LET known == [c \in DOMAIN updates \cap SyncJobColumns |-> updates[c]] IN
    [ok |-> DOMAIN updates \subseteq SyncJobColumns,
     table |-> [table EXCEPT ![id] = known @@ @],
     error |-> IF DOMAIN updates \subseteq SyncJobColumns THEN ""
               ELSE "Unknown argument"]

updateSyncJob(table, id, updates) == PrismaUpdateJob(table, id, updates)

\* the record the scheduler writes itself when runSync threw
SchedulerFailedJob(shop, scheduleId, syncType, t, message) ==
    [shop |-> shop, scheduleId |-> scheduleId, syncType |-> syncType,
     status |-> "failed", startTime |-> t, endTime |-> t,
     totalItems |-> 0, processedItems |-> 0, successItems |-> 0,
     failedItems |-> 0, errorMessage |-> message, results |-> <<>>]

\* variant: the where clause lacks the shop
ActiveProducts_AnyShop(shop) ==
    SeqOfSet({i \in DOMAIN products : products[i].syncStatus = "active"})

\* findMany({ where: { shop, syncStatus: "active" } }), in row order
ActiveProducts(shop) ==
    SeqOfSet({i \in DOMAIN products :
                 products[i].shop = shop /\ products[i].syncStatus = "active"})

\* new Set(existingProducts.map(p => p.turn14Sku))
ExistingSKUs(shop) ==
    {products[i].sku : i \in {j \in DOMAIN products : products[j].shop = shop}}

\* inventory.inventory_quantity || 0
NewQuantity(reported) == IF reported = Undefined THEN 0 ELSE reported

\* pricing.price || product.originalPrice
NewPrice(reported, originalPrice) ==
    IF reported = Undefined \/ reported = 0 THEN originalPrice
    ELSE PriceValue(reported)

\* 1 + (markup / 100)
MarkupFactor(markup) == Plus(Num(1), Quotient(markup, 100))

\* newPrice * (1 + (markup / 100)), for every price and markup of the model
FinalPrices ==
    {<<<<t[2], f[1]>>, Times(t[2], f[2])>> :
        t \in PriceValues, f \in {<<k, MarkupFactor(k)>> : k \in Markups}}

FinalPrice(newPrice, markup) == Lookup(FinalPrices, <<newPrice, markup>>)

\* variant: only a risen quantity counts as a change
InventoryChanged_OnlyRise(newQuantity, stored) == newQuantity > stored

InventoryChanged(newQuantity, stored) == newQuantity # stored

PriceChanged(newPrice, finalPrice, row) ==
    newPrice # row.originalPrice \/ finalPrice # row.currentPrice

PhaseResult(r) ==
    [totalItems |-> r.total, processedItems |-> r.processed,
     successItems |-> r.success, failedItems |-> r.failed, errors |-> r.errors]

RECURSIVE SumField(_, _)
SumField(s, f) == IF s = <<>> THEN 0 ELSE Head(s)[f] + SumField(Tail(s), f)

\* the merged result of fullSync
FullResult(sub) ==
    [totalItems |-> SumField(sub, "totalItems"),
     processedItems |-> SumField(sub, "processedItems"),
     successItems |-> SumField(sub, "successItems"),
     failedItems |-> SumField(sub, "failedItems"),
     inventory |-> sub[1], pricing |-> sub[2], newProducts |-> sub[3]]

\* the operations a sync type runs, in order
Phases(syncType) ==
    CASE syncType = "inventory" -> <<"inventory">>
      [] syncType = "pricing" -> <<"pricing">>
      [] syncType = "products" -> <<"products">>
      [] syncType = "full" -> <<"inventory", "pricing", "products">>
      [] OTHER -> <<>>

----------------------------------------------------------------------------
(* SyncScheduleManager *)

\* variant: a daily schedule runs again 24 hours later
calculateNextRun_DayLater(frequency, t) ==
    CASE frequency = "hourly" -> t + 1
      [] frequency = "daily" -> t + 24
      [] frequency = "weekly" -> ((t \div 24) + 7) * 24 + 2
      [] OTHER -> NoTime

calculateNextRun(frequency, t) ==
    CASE frequency = "hourly" -> t + 1
      [] frequency = "daily" -> ((t \div 24) + 1) * 24 + 2
      [] frequency = "weekly" -> ((t \div 24) + 7) * 24 + 2
      [] OTHER -> NoTime

IsDue(s, t) == s.isActive /\ s.nextRun # NoTime /\ s.nextRun <= t

getSchedulesDue(t) == SeqOfSet({i \in DOMAIN schedules : IsDue(schedules[i], t)})

markScheduleRun(table, id, t) ==
    IF id \notin DOMAIN table THEN table
    ELSE [table EXCEPT ![id] =
            [@ EXCEPT !.lastRun = t,
                      !.nextRun = calculateNextRun(table[id].frequency, t)]]

----------------------------------------------------------------------------
(* YMMService: vehicle compatibility of the imported products *)

\* SQL NULL in a String? column
Null == "NULL"

\* items of the distributor's compatibility data; a field the distributor omits
\* is absent from the record
FitsXL == [year |-> 2020, make |-> "Ford", model |-> "F-150", submodel |-> "XL",
           is_universal |-> FALSE]
FitsAny == [year |-> 2020, make |-> "Ford", model |-> "F-150", submodel |-> ""]
FitsAll == [year |-> 2019, make |-> "Ford", model |-> "Mustang",
            is_universal |-> TRUE]
ItemLists == {<<>>, <<FitsXL, FitsXL>>, <<FitsAny, FitsAny>>, <<FitsAny, FitsAll>>}

\* what getItemCompatibility(sku) gives: it throws, it resolves to an object
\* without items, or to an object with items
Answers ==
    {[kind |-> "throw", items |-> <<>>], [kind |-> "none", items |-> <<>>]}
        \cup {[kind |-> "items", items |-> l] : l \in ItemLists}

CompatSkus == {"A100", "B200"}
Limits == {1, 2}

\* compatibility.submodel || null
SubmodelOrNull(item) ==
    IF "submodel" \in DOMAIN item /\ item.submodel # "" THEN item.submodel ELSE Null

\* compatibility.is_universal || false
UniversalOrFalse(item) ==
    IF "is_universal" \in DOMAIN item THEN item.is_universal ELSE FALSE

\* the data of turn14VehicleCompatibility.create
EdgeRow(shop, productId, item) ==
    [shop |-> shop, productId |-> productId, year |-> item.year,
     make |-> item.make, model |-> item.model,
     submodel |-> SubmodelOrNull(item), isUniversal |-> UniversalOrFalse(item)]

\* @@unique([productId, year, make, model, submodel]); in the sqlite index two
\* NULL submodels are distinct
EdgeKey(e) == <<e.productId, e.year, e.make, e.model, e.submodel>>
DuplicateEdge(table, row) ==
    /\ row.submodel # Null
    /\ \E i \in DOMAIN table : EdgeKey(table[i]) = EdgeKey(row)

\* turn14VehicleCompatibility.create: rejected on a duplicate key and on a
\* productId without its Turn14ImportedProduct row
CreateEdgeRow(table, rows, row) ==
    IF DuplicateEdge(table, row) \/ row.productId \notin DOMAIN rows
    THEN [ok |-> FALSE, table |-> table]
    ELSE [ok |-> TRUE, table |-> Append(table, row)]

\* variant: the existing rows are kept
DeleteEdges_None(table, shop, productId) == table

\* turn14VehicleCompatibility.deleteMany({ where: { shop, productId } })
DeleteEdges(table, shop, productId) ==
    SelectSeq(table, LAMBDA e : ~(e.shop = shop /\ e.productId = productId))

\* the rows of a product, as a set
EdgesOf(table, productId) ==
    {table[i] : i \in {j \in DOMAIN table : table[j].productId = productId}}

\* turn14ImportedProduct.findUnique({ where: { shop_turn14Sku } })
ProductIdOf(shop, sku) ==
    {i \in DOMAIN products : products[i].shop = shop /\ products[i].sku = sku}

YmmIdle ==
    [pc |-> "idle", op |-> "none", sku |-> "", productId |-> 0, answer |-> <<>>,
     items |-> <<>>, processed |-> 0, created |-> 0, result |-> <<>>,
     error |-> "", limit |-> 0, queue |-> <<>>, selected |-> <<>>,
     prev |-> <<>>, log |-> <<>>, shop |-> TheShop,
     bulk |-> [processed |-> 0, successful |-> 0, failed |-> 0, errors |-> <<>>]]

----------------------------------------------------------------------------
(* VehicleGarageService: the customer's garage *)

TheCustomer == "c1"
TheGarage == 1

\* CustomerVehicleGarage.maxVehicles Int @default(5)
DefaultMaxVehicles == 5

\* the row of customerVehicleGarage.create
GarageRow(shop, customerId) ==
    [id |-> TheGarage, shop |-> shop, customerId |-> customerId,
     maxVehicles |-> DefaultMaxVehicles]

\* vehicleData of the route action "addVehicle": submodel is
\* formData.get("submodel") || null, isPrimary is formData.get("isPrimary") === "true"
VehicleData ==
    {[year |-> 2020, make |-> "Ford", model |-> "F-150", submodel |-> sub,
      isPrimary |-> b] : sub \in {"XL", Null}, b \in BOOLEAN}

\* the row of customerVehicle.create
VehicleRow(shop, garageId, data, isPrimary) ==
    [shop |-> shop, garageId |-> garageId, year |-> data.year,
     make |-> data.make, model |-> data.model, submodel |-> data.submodel,
     isPrimary |-> isPrimary]

\* the rows of a garage
VehiclesOf(table, garageId) == {i \in DOMAIN table : table[i].garageId = garageId}

\* the types of createDefaultMaintenanceReminders
DefaultReminders == <<"oil_change", "tire_rotation", "brake_inspection">>

GarageIdle ==
    [pc |-> "idle", op |-> "none", data |-> <<>>, vehicleId |-> 0, sku |-> "",
     garage |-> <<>>, count |-> 0, isPrimary |-> FALSE, vehicle |-> <<>>,
     result |-> <<>>, error |-> "", before |-> <<>>, queue |-> <<>>,
     log |-> <<>>]

----------------------------------------------------------------------------
(* State *)

ProductRow(sku, qty, price, markup, variant, t) ==
    [shop |-> TheShop, sku |-> sku, syncStatus |-> "active",
     inventoryQuantity |-> qty, originalPrice |-> PriceValue(price),
     currentPrice |-> FinalPrice(PriceValue(price), markup),
     priceMarkup |-> markup,
     variant |-> variant, lastSynced |-> t, syncErrors |-> ""]

Idle ==
    [pc |-> "idle", kind |-> "none", syncType |-> "none",
     scheduleId |-> NoSchedule, due |-> <<>>, jobId |-> NoJob,
     todo |-> <<>>, phase |-> "none", started |-> <<>>,
     queue |-> <<>>, brands |-> <<>>, existing |-> {},
     total |-> 0, processed |-> 0, success |-> 0, failed |-> 0,
     errors |-> <<>>, sub |-> <<>>, results |-> <<>>, error |-> "",
     exit |-> "none", selected |-> <<>>, attempts |-> <<>>, calls |-> 0,
     last |-> <<>>, errAtStart |-> {}, faults |-> 0, stage |-> "none",
     opError |-> "", tracked |-> {}, cfg |-> <<>>, filter |-> <<>>,
     shop |-> TheShop, maxNewProducts |-> Undefined]

Set(p, r) == run' = [run EXCEPT ![p] = r @@ run[p]]

\* the sync engine at rest
InitSync ==
    /\ now = 0
    /\ \/ config = [present |-> FALSE, isActive |-> TRUE, selectedBrands |-> <<>>]
       \/ \E b \in BrandChoices :
             config = [present |-> TRUE, isActive |-> TRUE, selectedBrands |-> b]
    /\ products = (1 :> ProductRow("A100", 5, 10, 20, TRUE, NoTime))
                @@ (2 :> ProductRow("B200", 5, 10, 20, FALSE, NoTime))
    /\ nextId = 3
    /\ jobs = <<>>
    /\ schedules = (1 :> [shop |-> TheShop, syncType |-> "inventory",
                           frequency |-> "hourly", isActive |-> TRUE,
                           lastRun |-> NoTime,
                           nextRun |-> calculateNextRun("hourly", -1)])
    /\ listings = <<>>
    /\ run = [p \in Procs |-> Idle]

\* no compatibility data, no call of YMMService
InitYmm ==
    /\ feed = [sku \in CompatSkus |-> [kind |-> "none", items |-> <<>>]]
    /\ feedChanges = 0
    /\ compat = <<>>
    /\ ymm = [p \in Procs |-> YmmIdle]
    /\ synced = [sku \in CompatSkus |-> <<>>]

\* no garage, no call of VehicleGarageService
InitGarage ==
    /\ garages = <<>>
    /\ vehicles = <<>>
    /\ nextVehicle = 1
    /\ reminders = <<>>
    /\ alerts = <<>>
    /\ call = [p \in Procs |-> GarageIdle]

Init == InitSync /\ InitYmm /\ InitGarage

----------------------------------------------------------------------------
(* Callers *)

\* route action "runSync" and SyncScheduler.runManualSync
Trigger(p, t) ==
    /\ run[p].pc = "idle"
    /\ Len(jobs) < MaxJobs
    /\ Set(p, [pc |-> "create", kind |-> "manual", syncType |-> t,
               scheduleId |-> NoSchedule])
    /\ UNCHANGED <<now, config, products, nextId, jobs, schedules, listings,
                   ymmVars, garageVars>>

\* SyncScheduler.runManualSync(shop, syncType) for the session's shop
runManualSync(p, shop, t) ==
    /\ run[p].pc = "idle"
    /\ Cardinality({i \in DOMAIN jobs : jobs[i].shop = shop}) < MaxJobs
    /\ Set(p, [pc |-> "create", kind |-> "manual", syncType |-> t,
               scheduleId |-> NoSchedule, shop |-> shop])
    /\ UNCHANGED <<now, config, products, nextId, jobs, schedules, listings,
                   ymmVars, garageVars>>

\* runManualSync(shop, "products", settings), with and without maxNewProducts
SyncProducts(p) ==
    /\ run[p].pc = "idle"
    /\ Len(jobs) < MaxJobs
    /\ \E m \in {Undefined, 1} :
          Set(p, [pc |-> "create", kind |-> "manual", syncType |-> "products",
                  scheduleId |-> NoSchedule, maxNewProducts |-> m])
    /\ UNCHANGED <<now, config, products, nextId, jobs, schedules, listings,
                   ymmVars, garageVars>>

\* a request for one operation, or for a type the switch of runSync does not know
ManualSync(p) == \E t \in RequestedTypes \ {"full"} : Trigger(p, t)

\* a request for the full sync
FullSync(p) == Trigger(p, "full")

\* SyncScheduler.checkAndRunScheduledSyncs, fired by setInterval
PollTick(p) ==
    /\ run[p].pc = "idle"
    /\ Len(jobs) < MaxJobs
    /\ Set(p, [pc |-> "due", kind |-> "scheduled", due |-> getSchedulesDue(now)])
    /\ UNCHANGED <<now, config, products, nextId, jobs, schedules, listings,
                   ymmVars, garageVars>>

\* the for loop of checkAndRunScheduledSyncs and the head of runScheduledSync
RunScheduledSync(p) ==
    /\ run[p].pc = "due"
    /\ IF run[p].due = <<>>
       THEN run' = [run EXCEPT ![p] = Idle]
       ELSE LET s == Head(run[p].due) IN
            IF ~config.present
            THEN Set(p, [due |-> Tail(run[p].due)])
            ELSE Set(p, [pc |-> "create", syncType |-> schedules[s].syncType,
                         scheduleId |-> s, shop |-> schedules[s].shop])
    /\ UNCHANGED <<now, config, products, nextId, jobs, schedules, listings,
                   ymmVars, garageVars>>

\* route action "syncSingleProduct": findUnique of the product, then
\* syncInventory({ productIds: [productId] }) and syncPricing({ productIds: [productId] })
\* on a SyncEngine of its own, without runSync
syncSingleProduct(p) ==
    /\ run[p].pc = "idle"
    /\ \E id \in DOMAIN products :
          Set(p, [pc |-> "setup", kind |-> "single", syncType |-> "single",
                  todo |-> <<"inventory", "pricing">>, filter |-> <<{id}>>])
    /\ UNCHANGED <<now, config, products, nextId, jobs, schedules, listings,
                   ymmVars, garageVars>>

\* the return of the route action "syncSingleProduct", from its try or its catch block
SingleDone(p) ==
    /\ run[p].pc \in {"returned", "catch"}
    /\ run[p].kind = "single"
    /\ run' = [run EXCEPT ![p] = Idle]
    /\ UNCHANGED <<now, config, products, nextId, jobs, schedules, listings,
                   ymmVars, garageVars>>

----------------------------------------------------------------------------
(* SyncEngine.runSync *)

createSyncJob(p) ==
    /\ run[p].pc = "create"
    /\ jobs' = Append(jobs, NewJob(run[p].shop, run[p].scheduleId, run[p].syncType))
    /\ Set(p, [pc |-> "markRunning", jobId |-> Len(jobs) + 1])
    /\ UNCHANGED <<now, config, products, nextId, schedules, listings,
                   ymmVars, garageVars>>

\* an exception leaves the running operation
Throw(p, message, more) ==
    Set(p, [pc |-> "catch", error |-> message, exit |-> "threw",
            opError |-> message] @@ more)

\* updateSyncJob(running) and the switch on syncType
MarkRunning(p) ==
    /\ run[p].pc = "markRunning"
    /\ LET u == updateSyncJob(jobs, run[p].jobId, RunningUpdates(now)) IN
       /\ jobs' = u.table
       /\ IF ~u.ok
          THEN Set(p, [pc |-> "catch", error |-> u.error])
          ELSE IF Phases(run[p].syncType) = <<>>
          THEN Throw(p, "Unknown sync type", [pc |-> "catch"])
          ELSE Set(p, [pc |-> "setup", todo |-> Phases(run[p].syncType)])
    /\ UNCHANGED <<now, config, products, nextId, schedules, listings,
                   ymmVars, garageVars>>

\* getTurn14Config, authenticate and the findMany of syncInventory / syncPricing /
\* syncNewProducts
Setup(p) ==
    /\ run[p].pc = "setup"
    /\ LET ph == Head(run[p].todo)
           begun == [phase |-> ph, todo |-> Tail(run[p].todo),
                     started |-> Append(run[p].started, ph),
                     total |-> 0, processed |-> 0, success |-> 0, failed |-> 0,
                     errors |-> <<>>, selected |-> <<>>, attempts |-> <<>>,
                     calls |-> 0, last |-> <<>>, faults |-> 0, stage |-> "setup",
                     errAtStart |-> {i \in DOMAIN products :
                                        products[i].syncStatus = "error"},
                     tracked |-> {products[i].sku : i \in DOMAIN products},
                     cfg |-> config]
       IN
       IF ~config.present
       THEN Throw(p, "Turn 14 configuration not found", begun)
       ELSE \E auth \in {"ok", "throw"} :
            IF auth = "throw"
            THEN Throw(p, "Authentication failed", begun)
            ELSE IF ph = "products"
            THEN IF config.selectedBrands = <<>>
                 THEN Throw(p, "No brands selected for product sync", begun)
                 ELSE Set(p, [pc |-> "brand", stage |-> "items",
                              brands |-> config.selectedBrands,
                              existing |-> ExistingSKUs(run[p].shop)] @@ begun)
            ELSE LET ids == ActiveProducts(run[p].shop) IN
                 Set(p, [pc |-> "item", stage |-> "items",
                         queue |-> [k \in 1..Len(ids) |->
                                       [id |-> ids[k]] @@ products[ids[k]]],
                         total |-> Len(ids), selected |-> ids] @@ begun)
    /\ UNCHANGED <<now, config, products, nextId, jobs, schedules, listings,
                   ymmVars, garageVars>>

----------------------------------------------------------------------------
(* The item loops of syncInventory and syncPricing *)

FetchOutcomes(values) ==
    {[kind |-> "throw", v |-> 0], [kind |-> "empty", v |-> 0]}
        \cup {[kind |-> "items", v |-> x] : x \in values \cup {Undefined}}

\* prisma.turn14ImportedProduct.update({ where: { id }, data }) on the live table
ProductUpdate(table, id, data) ==
    IF id \in DOMAIN table
    THEN [ok |-> TRUE, table |-> [table EXCEPT ![id] = data @@ @]]
    ELSE [ok |-> FALSE, table |-> table]

\* the data of the tracking-record update after a storefront write
InventoryData(newQuantity, t) ==
    [inventoryQuantity |-> newQuantity, lastSynced |-> t, syncStatus |-> "active"]

PricingData(newPrice, finalPrice, t) ==
    [originalPrice |-> newPrice, currentPrice |-> finalPrice,
     lastSynced |-> t, syncStatus |-> "active"]

\* the data of the update in the catch block of an item
ErrorData(message) == [syncStatus |-> "error", syncErrors |-> message]

\* variant: the tracking record is written before the storefront write
TryItem_RecordFirst(phase, row, fetch, store) ==
    LET newValue == IF phase = "inventory" THEN NewQuantity(fetch.v)
                    ELSE NewPrice(fetch.v, row.originalPrice)
        finalPrice == FinalPrice(newValue, row.priceMarkup)
        changed == IF phase = "inventory"
                   THEN InventoryChanged(newValue, row.inventoryQuantity)
                   ELSE PriceChanged(newValue, finalPrice, row)
        data == IF phase = "inventory" THEN InventoryData(newValue, now)
                ELSE PricingData(newValue, finalPrice, now)
        upd == ProductUpdate(products, row.id, data)
    IN
    IF fetch.kind = "throw"
    THEN [table |-> products, error |-> "Distributor request failed", calls |-> 0]
    ELSE IF fetch.kind = "empty" \/ ~changed
    THEN [table |-> products, error |-> "", calls |-> 0]
    ELSE IF ~upd.ok
    THEN [table |-> products, error |-> "Record to update not found", calls |-> 0]
    ELSE IF row.variant /\ store = "throw"
    THEN [table |-> upd.table, error |-> "Storefront request failed", calls |-> 1]
    ELSE [table |-> upd.table, error |-> "", calls |-> 1]

\* The try block of one item: row is the snapshot read by findMany, fetch the
\* distributor's answer, store the outcome of the storefront write.
\* Gives the table after the try block, the error caught ("" if none) and the
\* number of storefront update calls made.
TryItem(phase, row, fetch, store) ==
    LET newValue == IF phase = "inventory" THEN NewQuantity(fetch.v)
                    ELSE NewPrice(fetch.v, row.originalPrice)
        finalPrice == FinalPrice(newValue, row.priceMarkup)
        changed == IF phase = "inventory"
                   THEN InventoryChanged(newValue, row.inventoryQuantity)
                   ELSE PriceChanged(newValue, finalPrice, row)
        data == IF phase = "inventory" THEN InventoryData(newValue, now)
                ELSE PricingData(newValue, finalPrice, now)
        upd == ProductUpdate(products, row.id, data)
    IN
    IF fetch.kind = "throw"
    THEN [table |-> products, error |-> "Distributor request failed", calls |-> 0]
    ELSE IF fetch.kind = "empty" \/ ~changed
    THEN [table |-> products, error |-> "", calls |-> 0]
    ELSE IF row.variant /\ store = "throw"
    THEN [table |-> products, error |-> "Storefront request failed", calls |-> 1]
    ELSE IF ~upd.ok
    THEN [table |-> products, error |-> "Record to update not found", calls |-> 1]
    ELSE [table |-> upd.table, error |-> "", calls |-> 1]

SyncItem(p) ==
    /\ run[p].pc = "item"
    /\ run[p].queue # <<>>
    /\ \E fetch \in FetchOutcomes(IF run[p].phase = "inventory"
                                  THEN Quantities ELSE Prices),
          store \in {"ok", "throw"} :
       LET row == Head(run[p].queue)
           try == TryItem(run[p].phase, row, fetch, store)
           caught == ProductUpdate(try.table, row.id, ErrorData(try.error))
           seen == [attempts |-> Append(run[p].attempts, row.id),
                    calls |-> run[p].calls + try.calls,
                    last |-> <<[id |-> row.id, row |-> row,
                                stored |-> IF row.id \in DOMAIN products
                                           THEN products[row.id].inventoryQuantity
                                           ELSE row.inventoryQuantity,
                                fetch |-> fetch, calls |-> try.calls,
                                error |-> try.error]>>,
                    faults |-> IF try.error = "" THEN run[p].faults ELSE 1]
       IN
       IF try.error = ""
       THEN /\ products' = try.table
            /\ Set(p, seen @@ [queue |-> Tail(run[p].queue),
                               success |-> run[p].success + 1,
                               processed |-> run[p].processed + 1])
       ELSE IF caught.ok
       THEN /\ products' = caught.table
            /\ Set(p, seen @@ [queue |-> Tail(run[p].queue),
                               failed |-> run[p].failed + 1,
                               errors |-> Append(run[p].errors,
                                             [key |-> row.sku, error |-> try.error]),
                               processed |-> run[p].processed + 1])
       ELSE /\ products' = try.table
            /\ Throw(p, "Record to update not found",
                     seen @@ [failed |-> run[p].failed + 1,
                              errors |-> Append(run[p].errors,
                                            [key |-> row.sku, error |-> try.error])])
    /\ UNCHANGED <<now, config, nextId, jobs, schedules, listings,
                   ymmVars, garageVars>>

----------------------------------------------------------------------------
(* The loops of syncNewProducts *)

\* settings.maxNewProducts || 50
MaxNewProducts(setting) ==
    IF setting = Undefined \/ setting = 0 THEN PageSize ELSE setting

\* variant: a failed brand fetch leaves syncNewProducts
FetchBrand_Rethrows(p) ==
    /\ run[p].pc = "brand"
    /\ run[p].brands # <<>>
    /\ Throw(p, "Distributor request failed", [brands |-> Tail(run[p].brands)])
    /\ UNCHANGED <<now, config, products, nextId, jobs, schedules, listings,
                   ymmVars, garageVars>>

\* getItemsByBrand(brandId, { page: 1, pageSize })
FetchBrand(p) ==
    /\ run[p].pc = "brand"
    /\ run[p].brands # <<>>
    /\ \E fetch \in {"ok", "throw"} :
       LET b == Head(run[p].brands)
           pageSize == MaxNewProducts(run[p].maxNewProducts)
           items == SubSeq(Catalog[b], 1,
                           IF Len(Catalog[b]) < pageSize
                           THEN Len(Catalog[b]) ELSE pageSize)
       IN
       IF fetch = "throw"
       THEN Set(p, [brands |-> Tail(run[p].brands), faults |-> 1,
                    errors |-> Append(run[p].errors,
                                  [key |-> b, error |-> "Distributor request failed"])])
       ELSE Set(p, [pc |-> "import", brands |-> Tail(run[p].brands),
                    queue |-> items, total |-> run[p].total + Len(items)])
    /\ UNCHANGED <<now, config, products, nextId, jobs, schedules, listings,
                   ymmVars, garageVars>>

\* prisma.turn14ImportedProduct.create of a newly imported product
ImportedRow(shop, item, markup, t) ==
    [shop |-> shop, sku |-> item.id, syncStatus |-> "active",
     inventoryQuantity |-> item.inventory_quantity,
     originalPrice |-> PriceValue(item.price),
     currentPrice |-> FinalPrice(PriceValue(item.price), markup),
     priceMarkup |-> markup,
     variant |-> TRUE, lastSynced |-> t, syncErrors |-> ""]

\* variant: the duplicate check is dropped
AlreadyImported_Never(existing, sku) == FALSE

AlreadyImported(existing, sku) == sku \in existing

ImportItem(p) ==
    /\ run[p].pc = "import"
    /\ nextId <= MaxRowId
    /\ \E save \in {"ok", "throw"} :
       LET item == Head(run[p].queue)
           rest == [queue |-> Tail(run[p].queue),
                    processed |-> run[p].processed + 1,
                    attempts |-> Append(run[p].attempts, item.id)]
           fail(msg) == rest @@ [failed |-> run[p].failed + 1, faults |-> 1,
                                 errors |-> Append(run[p].errors,
                                               [key |-> item.id, error |-> msg])]
       IN
       IF run[p].queue = <<>>
       THEN /\ Set(p, [pc |-> "brand"])
            /\ UNCHANGED <<products, nextId, listings>>
       ELSE IF AlreadyImported(run[p].existing, item.id)
       THEN /\ Set(p, rest)
            /\ UNCHANGED <<products, nextId, listings>>
       ELSE IF save = "throw"
       THEN /\ Set(p, fail("Storefront request failed"))
            /\ UNCHANGED <<products, nextId, listings>>
       ELSE IF UniqueViolation(products, run[p].shop, item.id)
       THEN /\ listings' = Append(listings, item.id)
            /\ Set(p, fail("Unique constraint failed"))
            /\ UNCHANGED <<products, nextId>>
       ELSE /\ listings' = Append(listings, item.id)
            /\ products' = (nextId :> ImportedRow(run[p].shop, item, 0, now)) @@ products
            /\ nextId' = nextId + 1
            /\ Set(p, rest @@ [success |-> run[p].success + 1])
    /\ UNCHANGED <<now, config, jobs, schedules,
                   ymmVars, garageVars>>

----------------------------------------------------------------------------
(* Return of an operation, and the rest of runSync *)

\* the return statement of syncInventory / syncPricing / syncNewProducts, and the
\* next await of fullSync
PhaseReturn(p) ==
    /\ \/ run[p].pc = "item" /\ run[p].queue = <<>>
       \/ run[p].pc = "brand" /\ run[p].brands = <<>>
    /\ LET res == PhaseResult(run[p])
           sub == Append(run[p].sub, res)
       IN
       IF run[p].todo # <<>>
       THEN Set(p, [pc |-> "setup", stage |-> "returned", sub |-> sub])
       ELSE IF run[p].kind = "single"
       THEN Set(p, [pc |-> "returned", stage |-> "returned", sub |-> sub,
                    exit |-> "returned"])
       ELSE Set(p, [pc |-> "complete", stage |-> "returned", sub |-> sub,
                    exit |-> "returned",
                    results |-> <<IF run[p].syncType = "full"
                                  THEN FullResult(sub) ELSE res>>])
    /\ UNCHANGED <<now, config, products, nextId, jobs, schedules, listings,
                   ymmVars, garageVars>>

\* updateSyncJob(completed) and the return of runSync
Complete(p) ==
    /\ run[p].pc = "complete"
    /\ LET u == updateSyncJob(jobs, run[p].jobId,
                              CompletedUpdates(now, run[p].results[1])) IN
       /\ jobs' = u.table
       /\ IF u.ok THEN Set(p, [pc |-> "returned"])
          ELSE Set(p, [pc |-> "catch", error |-> u.error])
    /\ UNCHANGED <<now, config, products, nextId, schedules, listings,
                   ymmVars, garageVars>>

\* the catch block of runSync
Catch(p) ==
    /\ run[p].pc = "catch"
    /\ run[p].kind # "single"
    /\ LET u == updateSyncJob(jobs, run[p].jobId,
                              FailedUpdates(now, run[p].error)) IN
       jobs' = u.table
    /\ Set(p, [pc |-> "threw"])
    /\ UNCHANGED <<now, config, products, nextId, schedules, listings,
                   ymmVars, garageVars>>

\* back in the caller of runSync: the route action and runManualSync pass the
\* outcome on; runScheduledSync marks the schedule run, or in its catch block
\* writes a failed job record of its own
Finish(p) ==
    /\ run[p].pc \in {"returned", "threw"}
    /\ run[p].kind # "single"
    /\ IF run[p].kind = "manual"
       THEN /\ run' = [run EXCEPT ![p] = Idle]
            /\ UNCHANGED <<jobs, schedules>>
       ELSE /\ run' = [run EXCEPT ![p] =
                          [pc |-> "due", kind |-> "scheduled",
                           due |-> Tail(run[p].due)] @@ Idle]
            /\ IF run[p].pc = "returned"
               THEN /\ schedules' = markScheduleRun(schedules, run[p].scheduleId, now)
                    /\ jobs' = jobs
               ELSE /\ jobs' = Append(jobs,
                                  SchedulerFailedJob(run[p].shop, run[p].scheduleId,
                                                     run[p].syncType, now,
                                                     run[p].error))
                    /\ schedules' = schedules
    /\ UNCHANGED <<now, config, products, nextId, listings,
                   ymmVars, garageVars>>

----------------------------------------------------------------------------
(* Environment *)

AdvanceClock ==
    /\ now < MaxTime
    /\ now' = now + 1
    /\ UNCHANGED <<config, products, nextId, jobs, schedules, listings, run,
                   ymmVars, garageVars>>

\* route action "deleteProduct"
DeleteProduct ==
    /\ (nextId - 1) - Cardinality(DOMAIN products) < MaxDeletes
    /\ \E i \in DOMAIN products :
          /\ products' = [j \in DOMAIN products \ {i} |-> products[j]]
          \* Turn14VehicleCompatibility.product: onDelete: Cascade
          /\ compat' = SelectSeq(compat, LAMBDA e : e.productId # i)
    /\ UNCHANGED <<now, config, nextId, jobs, schedules, listings, run,
                   feed, feedChanges, ymm, synced, garageVars>>

----------------------------------------------------------------------------
(* YMMService: the calls *)

YmmSet(p, r) == ymm' = [ymm EXCEPT ![p] = r @@ ymm[p]]

\* the last return for a SKU
Remember(sku, outcome) == synced' = [synced EXCEPT ![sku] = <<outcome>>]

\* syncProductCompatibility returns: to its caller, or into the try block of
\* the loop of bulkSyncCompatibility (successful++, processed++)
YmmReturn(p, answer, result, table) ==
    /\ Remember(ymm[p].sku,
                [answer |-> answer, productId |-> ymm[p].productId,
                 edges |-> EdgesOf(table, ymm[p].productId), result |-> result])
    /\ IF ymm[p].op = "single"
       THEN YmmSet(p, [pc |-> "returned", answer |-> answer, result |-> result,
                       prev |-> synced[ymm[p].sku]])
       ELSE YmmSet(p, [pc |-> "next", answer |-> answer, result |-> result,
                       prev |-> synced[ymm[p].sku],
                       log |-> Append(ymm[p].log, "returned"),
                       bulk |-> [ymm[p].bulk EXCEPT
                                    !.successful = @ + 1, !.processed = @ + 1]])

\* variant: the loop of bulkSyncCompatibility lets the exception pass
YmmThrow_Rethrows(p, message) == YmmSet(p, [pc |-> "threw", error |-> message])

\* syncProductCompatibility rethrows: to its caller, or into the catch block of
\* the loop of bulkSyncCompatibility (failed++, errors.push, processed++)
YmmThrow(p, message) ==
    IF ymm[p].op = "single"
    THEN YmmSet(p, [pc |-> "threw", error |-> message])
    ELSE YmmSet(p, [pc |-> "next", error |-> message,
                    log |-> Append(ymm[p].log, "threw"),
                    bulk |-> [ymm[p].bulk EXCEPT
                                 !.failed = @ + 1, !.processed = @ + 1,
                                 !.errors = Append(@, [sku |-> ymm[p].sku,
                                                       error |-> message])]])

\* route action "syncProductCompatibility"
RequestSync(p) ==
    /\ ymm[p].pc = "idle"
    /\ \E sku \in CompatSkus :
          ymm' = [ymm EXCEPT ![p] = [pc |-> "init", op |-> "single",
                                     sku |-> sku] @@ YmmIdle]
    /\ UNCHANGED <<now, config, products, nextId, jobs, schedules, listings, run,
                   feed, feedChanges, compat, synced, garageVars>>

\* the route actions "syncProductCompatibility" and "bulkSyncCompatibility" of a
\* session of the given shop: new YMMService(session.shop)
RequestOf(p, shop) ==
    /\ ymm[p].pc = "idle"
    /\ \/ \E sku \in CompatSkus :
             ymm' = [ymm EXCEPT ![p] = [pc |-> "init", op |-> "single",
                                        sku |-> sku, shop |-> shop] @@ YmmIdle]
       \/ \E limit \in Limits :
             ymm' = [ymm EXCEPT ![p] = [pc |-> "select", op |-> "bulk",
                                        limit |-> limit, shop |-> shop] @@ YmmIdle]
    /\ UNCHANGED <<now, config, products, nextId, jobs, schedules, listings, run,
                   feed, feedChanges, compat, synced, garageVars>>

\* route action "bulkSyncCompatibility"
RequestBulk(p) ==
    /\ ymm[p].pc = "idle"
    /\ \E limit \in Limits :
          ymm' = [ymm EXCEPT ![p] = [pc |-> "select", op |-> "bulk",
                                     limit |-> limit] @@ YmmIdle]
    /\ UNCHANGED <<now, config, products, nextId, jobs, schedules, listings, run,
                   feed, feedChanges, compat, synced, garageVars>>

\* the first rows of a sequence, at most n
Take(seq, n) == SubSeq(seq, 1, IF Len(seq) < n THEN Len(seq) ELSE n)

\* bulkSyncCompatibility: findMany({ where: { shop, syncStatus: 'active' },
\* take: limit, orderBy: { createdAt: 'asc' } })
BulkSelect(p) ==
    /\ ymm[p].pc = "select"
    /\ LET ids == Take(ActiveProducts(ymm[p].shop), ymm[p].limit)
           skus == [k \in 1..Len(ids) |-> products[ids[k]].sku]
       IN YmmSet(p, [pc |-> "next", queue |-> skus, selected |-> skus])
    /\ UNCHANGED <<now, config, products, nextId, jobs, schedules, listings, run,
                   feed, feedChanges, compat, synced, garageVars>>

\* the head of the for loop of bulkSyncCompatibility, and its return
BulkNext(p) ==
    /\ ymm[p].pc = "next"
    /\ IF ymm[p].queue = <<>>
       THEN YmmSet(p, [pc |-> "returned", result |-> ymm[p].bulk, prev |-> <<>>])
       ELSE YmmSet(p, [pc |-> "init", sku |-> Head(ymm[p].queue),
                       queue |-> Tail(ymm[p].queue), productId |-> 0,
                       answer |-> <<>>, items |-> <<>>, processed |-> 0,
                       created |-> 0, result |-> <<>>, error |-> "",
                       prev |-> <<>>])
    /\ UNCHANGED <<now, config, products, nextId, jobs, schedules, listings, run,
                   feed, feedChanges, compat, synced, garageVars>>

\* YMMService.initializeApi
initializeApi(p) ==
    /\ ymm[p].pc = "init"
    /\ IF ~config.present
       THEN YmmThrow(p, "Turn 14 configuration not found")
       ELSE \E auth \in {"ok", "throw"} :
               IF auth = "throw"
               THEN YmmThrow(p, "Authentication failed")
               ELSE YmmSet(p, [pc |-> "find"])
    /\ UNCHANGED <<now, config, products, nextId, jobs, schedules, listings, run,
                   feed, feedChanges, compat, synced, garageVars>>

\* syncProductCompatibility: the product lookup
FindProduct(p) ==
    /\ ymm[p].pc = "find"
    /\ LET found == ProductIdOf(ymm[p].shop, ymm[p].sku) IN
       IF found = {}
       THEN YmmThrow(p, "Product not found")
       ELSE YmmSet(p, [pc |-> "fetch", productId |-> Only(found)])
    /\ UNCHANGED <<now, config, products, nextId, jobs, schedules, listings, run,
                   feed, feedChanges, compat, synced, garageVars>>

\* syncProductCompatibility: getItemCompatibility and the test of its answer
getItemCompatibility(p) ==
    /\ ymm[p].pc = "fetch"
    /\ LET answer == feed[ymm[p].sku] IN
       CASE answer.kind = "throw" ->
               /\ YmmThrow(p, "Request failed")
               /\ UNCHANGED synced
         [] answer.kind = "none" ->
               YmmReturn(p, answer, [processed |-> 0, created |-> 0, updated |-> 0],
                         compat)
         [] OTHER ->
               /\ YmmSet(p, [pc |-> "clear", answer |-> answer,
                             items |-> answer.items])
               /\ UNCHANGED synced
    /\ UNCHANGED <<now, config, products, nextId, jobs, schedules, listings, run,
                   feed, feedChanges, compat, garageVars>>

\* syncProductCompatibility: deleteMany of the product's rows
ClearEdges(p) ==
    /\ ymm[p].pc = "clear"
    /\ compat' = DeleteEdges(compat, ymm[p].shop, ymm[p].productId)
    /\ YmmSet(p, [pc |-> "create"])
    /\ UNCHANGED <<now, config, products, nextId, jobs, schedules, listings, run,
                   feed, feedChanges, synced, garageVars>>

\* syncProductCompatibility: one pass of the for loop over the items, and the
\* return after the last
CreateEdge(p) ==
    /\ ymm[p].pc = "create"
    /\ IF ymm[p].items = <<>>
       THEN /\ YmmReturn(p, ymm[p].answer,
                         [processed |-> ymm[p].processed,
                          created |-> ymm[p].created, updated |-> 0], compat)
            /\ UNCHANGED compat
       ELSE LET c == CreateEdgeRow(compat, products,
                                   EdgeRow(ymm[p].shop, ymm[p].productId,
                                           Head(ymm[p].items)))
            IN /\ compat' = c.table
               /\ YmmSet(p, [items |-> Tail(ymm[p].items),
                             processed |-> ymm[p].processed + (IF c.ok THEN 1 ELSE 0),
                             created |-> ymm[p].created + (IF c.ok THEN 1 ELSE 0)])
               /\ UNCHANGED synced
    /\ UNCHANGED <<now, config, products, nextId, jobs, schedules, listings, run,
                   feed, feedChanges, garageVars>>

\* the caller takes the result or the exception
YmmDone(p) ==
    /\ ymm[p].pc \in {"returned", "threw"}
    /\ ymm' = [ymm EXCEPT ![p] = YmmIdle]
    /\ UNCHANGED <<now, config, products, nextId, jobs, schedules, listings, run,
                   feed, feedChanges, compat, synced, garageVars>>

\* the distributor changes the compatibility data of a SKU
ChangeFeed ==
    /\ feedChanges < MaxChanges
    /\ feedChanges' = feedChanges + 1
    /\ \E sku \in CompatSkus :
          \E a \in Answers \ {feed[sku]} : feed' = [feed EXCEPT ![sku] = a]
    /\ UNCHANGED <<now, config, products, nextId, jobs, schedules, listings, run,
                   compat, ymm, synced, garageVars>>

----------------------------------------------------------------------------
(* VehicleGarageService: the calls *)

syncVars == <<now, config, products, nextId, jobs, schedules, listings, run>>

CallSet(p, r) == call' = [call EXCEPT ![p] = r @@ call[p]]
CallThrow(p, message) == CallSet(p, [pc |-> "threw", error |-> message])
CallReturn(p, result) == CallSet(p, [pc |-> "returned", result |-> result])

\* route action "addVehicle"
RequestAdd(p) ==
    /\ call[p].pc = "idle"
    /\ nextVehicle <= MaxVehicleId
    /\ \E data \in VehicleData :
          call' = [call EXCEPT ![p] =
                      [pc |-> "garage", op |-> "add", data |-> data,
                       before |-> [vehicles |-> vehicles,
                                   reminders |-> reminders]] @@ GarageIdle]
    /\ UNCHANGED <<syncVars, ymmVars, garages, vehicles, nextVehicle, reminders,
                   alerts>>

\* route action "addVehicle" for a form without "make": formData.get("make") is
\* null and the action passes it on
RequestAddWithoutMake(p) ==
    /\ call[p].pc = "idle"
    /\ nextVehicle <= MaxVehicleId
    /\ \E data \in VehicleData :
          call' = [call EXCEPT ![p] =
                      [pc |-> "garage", op |-> "add",
                       data |-> [data EXCEPT !.make = Null],
                       before |-> [vehicles |-> vehicles,
                                   reminders |-> reminders]] @@ GarageIdle]
    /\ UNCHANGED <<syncVars, ymmVars, garages, vehicles, nextVehicle, reminders,
                   alerts>>

\* variant: one vehicle more is let in
LimitReached_Above(count, garage) == count > garage.maxVehicles

\* addVehicle: garage.vehicles.length >= garage.maxVehicles
LimitReached(count, garage) == count >= garage.maxVehicles

\* getOrCreateGarage: findUnique with its vehicles; then, in addVehicle, the
\* limit check and the choice of isPrimary
getOrCreateGarage(p) ==
    /\ call[p].pc = "garage"
    /\ IF TheCustomer \notin DOMAIN garages
       THEN CallSet(p, [pc |-> "createGarage"])
       ELSE LET garage == garages[TheCustomer]
                count == Cardinality(VehiclesOf(vehicles, garage.id))
                isPrimary == count = 0 \/ call[p].data.isPrimary
            IN IF LimitReached(count, garage)
               THEN CallThrow(p, "Vehicle limit reached")
               ELSE CallSet(p, [pc |-> IF isPrimary THEN "unset" ELSE "create",
                                garage |-> garage, count |-> count,
                                isPrimary |-> isPrimary])
    /\ UNCHANGED <<syncVars, ymmVars, garages, vehicles, nextVehicle, reminders,
                   alerts>>

\* getOrCreateGarage: customerVehicleGarage.create, rejected by
\* @@unique([shop, customerId]) when another caller created the row first
CreateGarage(p) ==
    /\ call[p].pc = "createGarage"
    /\ IF TheCustomer \in DOMAIN garages
       THEN /\ CallThrow(p, "Unique constraint failed")
            /\ UNCHANGED garages
       ELSE /\ garages' = (TheCustomer :> GarageRow(TheShop, TheCustomer)) @@ garages
            /\ CallSet(p, [pc |-> "unset", garage |-> GarageRow(TheShop, TheCustomer),
                           count |-> 0, isPrimary |-> TRUE])
    /\ UNCHANGED <<syncVars, ymmVars, vehicles, nextVehicle, reminders, alerts>>

\* customerVehicle.updateMany({ where: { shop, garageId, isPrimary: true
\* [, id: { not }] }, data: { isPrimary: false } })
UnsetPrimaries(table, shop, garageId, except) ==
    [i \in DOMAIN table |->
        IF /\ table[i].shop = shop /\ table[i].garageId = garageId
           /\ table[i].isPrimary /\ i \notin except
        THEN [table[i] EXCEPT !.isPrimary = FALSE] ELSE table[i]]

\* addVehicle: unset the other primary vehicles
UnsetPrimary(p) ==
    /\ call[p].pc = "unset"
    /\ vehicles' = UnsetPrimaries(vehicles, TheShop, call[p].garage.id, {})
    /\ CallSet(p, [pc |-> "create"])
    /\ UNCHANGED <<syncVars, ymmVars, garages, nextVehicle, reminders, alerts>>

\* addVehicle: findTurn14Vehicle and customerVehicle.create
CreateVehicle(p) ==
    /\ call[p].pc = "create"
    /\ IF call[p].data.make = Null
       THEN \* make String: a required column
            /\ CallThrow(p, "Argument make must not be null")
            /\ UNCHANGED <<vehicles, nextVehicle>>
       ELSE /\ vehicles' = (nextVehicle :> VehicleRow(TheShop, call[p].garage.id,
                                                      call[p].data, call[p].isPrimary))
                              @@ vehicles
            /\ nextVehicle' = nextVehicle + 1
            /\ CallSet(p, [pc |-> "reminders", vehicleId |-> nextVehicle])
    /\ UNCHANGED <<syncVars, ymmVars, garages, reminders, alerts>>

\* addVehicle: createDefaultMaintenanceReminders, rejected when the vehicle row
\* is gone, and the return
CreateReminders(p) ==
    /\ call[p].pc = "reminders"
    /\ IF call[p].vehicleId \notin DOMAIN vehicles
       THEN /\ CallThrow(p, "Foreign key constraint failed")
            /\ UNCHANGED reminders
       ELSE /\ reminders' = reminders \o
                   [k \in DOMAIN DefaultReminders |->
                       [shop |-> TheShop, vehicleId |-> call[p].vehicleId,
                        type |-> DefaultReminders[k]]]
            /\ CallReturn(p, vehicles[call[p].vehicleId])
    /\ UNCHANGED <<syncVars, ymmVars, garages, vehicles, nextVehicle, alerts>>

\* updateData of the route action "updateVehicle"
UpdateData == {[isPrimary |-> b] : b \in BOOLEAN}

\* route action "updateVehicle"
RequestUpdate(p) ==
    /\ call[p].pc = "idle"
    /\ \E id \in 1..MaxVehicleId, data \in UpdateData :
          call' = [call EXCEPT ![p] =
                      [pc |-> "owned", op |-> "update", vehicleId |-> id,
                       data |-> data] @@ GarageIdle]
    /\ UNCHANGED <<syncVars, ymmVars, garages, vehicles, nextVehicle, reminders,
                   alerts>>

\* route action "removeVehicle"
RequestRemove(p) ==
    /\ call[p].pc = "idle"
    /\ \E id \in 1..MaxVehicleId :
          call' = [call EXCEPT ![p] =
                      [pc |-> "owned", op |-> "remove", vehicleId |-> id]
                          @@ GarageIdle]
    /\ UNCHANGED <<syncVars, ymmVars, garages, vehicles, nextVehicle, reminders,
                   alerts>>

\* customerVehicle.findFirst({ where: { id, shop, garage: { customerId } } })
Owned(id, shop, customerId) ==
    /\ id \in DOMAIN vehicles
    /\ vehicles[id].shop = shop
    /\ customerId \in DOMAIN garages
    /\ garages[customerId].id = vehicles[id].garageId

\* updateVehicle and removeVehicle: verify ownership
FindOwned(p) ==
    /\ call[p].pc = "owned"
    /\ IF ~Owned(call[p].vehicleId, TheShop, TheCustomer)
       THEN CallThrow(p, "Vehicle not found or access denied")
       ELSE CallSet(p, [vehicle |-> vehicles[call[p].vehicleId],
                        pc |-> IF call[p].op = "remove" THEN "delete"
                               ELSE IF call[p].data.isPrimary THEN "unsetOthers"
                               ELSE "update"])
    /\ UNCHANGED <<syncVars, ymmVars, garages, vehicles, nextVehicle, reminders,
                   alerts>>

\* updateVehicle: unset the other primary vehicles
UnsetOthers(p) ==
    /\ call[p].pc = "unsetOthers"
    /\ vehicles' = UnsetPrimaries(vehicles, TheShop, call[p].vehicle.garageId,
                                  {call[p].vehicleId})
    /\ CallSet(p, [pc |-> "update"])
    /\ UNCHANGED <<syncVars, ymmVars, garages, nextVehicle, reminders, alerts>>

\* updateVehicle: customerVehicle.update({ where: { id }, data: updateData })
UpdateVehicle(p) ==
    /\ call[p].pc = "update"
    /\ IF call[p].vehicleId \notin DOMAIN vehicles
       THEN /\ CallThrow(p, "Record to update not found")
            /\ UNCHANGED vehicles
       ELSE /\ vehicles' = [vehicles EXCEPT ![call[p].vehicleId] = call[p].data @@ @]
            /\ CallReturn(p, call[p].data @@ vehicles[call[p].vehicleId])
    /\ UNCHANGED <<syncVars, ymmVars, garages, nextVehicle, reminders, alerts>>

\* removeVehicle: customerVehicle.delete({ where: { id } }); the reminders and
\* the price alerts of the vehicle go with it (onDelete: Cascade)
DeleteVehicle(p) ==
    /\ call[p].pc = "delete"
    /\ IF call[p].vehicleId \notin DOMAIN vehicles
       THEN /\ CallThrow(p, "Record to delete does not exist")
            /\ UNCHANGED <<vehicles, reminders, alerts>>
       ELSE /\ vehicles' = [i \in DOMAIN vehicles \ {call[p].vehicleId} |-> vehicles[i]]
            /\ reminders' = SelectSeq(reminders,
                                      LAMBDA r : r.vehicleId # call[p].vehicleId)
            /\ alerts' = [a \in {b \in DOMAIN alerts :
                                    alerts[b].vehicleId # call[p].vehicleId}
                            |-> alerts[a]]
            /\ CallReturn(p, TRUE)
    /\ UNCHANGED <<syncVars, ymmVars, garages, nextVehicle>>

\* route loader of the compatibility check
RequestCheck(p) ==
    /\ call[p].pc = "idle"
    /\ \E id \in 1..MaxVehicleId + 1, sku \in CompatSkus :
          call' = [call EXCEPT ![p] =
                      [pc |-> "vehicle", op |-> "check", vehicleId |-> id,
                       sku |-> sku] @@ GarageIdle]
    /\ UNCHANGED <<syncVars, ymmVars, garages, vehicles, nextVehicle, reminders,
                   alerts>>

\* checkProductCompatibility: customerVehicle.findUnique({ where: { id } })
FindVehicle(p) ==
    /\ call[p].pc = "vehicle"
    /\ IF call[p].vehicleId \notin DOMAIN vehicles
       THEN CallSet(p, [pc |-> "returned", before |-> [vehicles |-> vehicles],
                        result |-> [compatible |-> FALSE,
                                    reason |-> "Vehicle not found"]])
       ELSE CallSet(p, [pc |-> "exact", before |-> [vehicles |-> vehicles],
                        vehicle |-> vehicles[call[p].vehicleId]])
    /\ UNCHANGED <<syncVars, ymmVars, garages, vehicles, nextVehicle, reminders,
                   alerts>>

\* what a query of the compatibility rows reads
Read(p) ==
    [compat |-> compat, skus |-> [i \in DOMAIN products |-> products[i].sku]]
        @@ call[p].before

\* the rows of a shop's product, by SKU
RowsOfSku(table, shop, sku) ==
    {i \in DOMAIN table :
        /\ table[i].shop = shop
        /\ table[i].productId \in DOMAIN products
        /\ products[table[i].productId].sku = sku}

\* variant: the vehicle's submodel is not compared
ExactMatches_AnySubmodel(table, shop, sku, vehicle) ==
    {i \in RowsOfSku(table, shop, sku) :
        /\ table[i].year = vehicle.year /\ table[i].make = vehicle.make
        /\ table[i].model = vehicle.model}

\* where: { shop, product: { turn14Sku }, year, make, model,
\*          ...(vehicle.submodel && { submodel: vehicle.submodel }) }
ExactMatches(table, shop, sku, vehicle) ==
    {i \in RowsOfSku(table, shop, sku) :
        /\ table[i].year = vehicle.year /\ table[i].make = vehicle.make
        /\ table[i].model = vehicle.model
        /\ vehicle.submodel \notin {Null, ""} => table[i].submodel = vehicle.submodel}

\* where: { shop, product: { turn14Sku }, isUniversal: true }
UniversalMatches(table, shop, sku) ==
    {i \in RowsOfSku(table, shop, sku) : table[i].isUniversal}

\* checkProductCompatibility: findFirst of a matching row
FindExact(p) ==
    /\ call[p].pc = "exact"
    /\ LET found == ExactMatches(compat, TheShop, call[p].sku, call[p].vehicle) IN
       IF found = {}
       THEN CallSet(p, [pc |-> "universal"])
       ELSE \E i \in found :
               CallSet(p, [pc |-> "returned",
                           before |-> Read(p),
                           result |-> [compatible |-> TRUE,
                                       compatibility |-> compat[i]]])
    /\ UNCHANGED <<syncVars, ymmVars, garages, vehicles, nextVehicle, reminders,
                   alerts>>

\* checkProductCompatibility: findFirst of a universal row, and the last return
FindUniversal(p) ==
    /\ call[p].pc = "universal"
    /\ LET found == UniversalMatches(compat, TheShop, call[p].sku) IN
       IF found = {}
       THEN CallSet(p, [pc |-> "returned",
                        before |-> Read(p),
                        result |-> [compatible |-> FALSE,
                                    reason |-> "No compatibility data found"]])
       ELSE \E i \in found :
               CallSet(p, [pc |-> "returned",
                           before |-> Read(p),
                           result |-> [compatible |-> TRUE,
                                       compatibility |-> compat[i],
                                       isUniversal |-> TRUE]])
    /\ UNCHANGED <<syncVars, ymmVars, garages, vehicles, nextVehicle, reminders,
                   alerts>>

\* the route action answers
CallDone(p) ==
    /\ call[p].pc \in {"returned", "threw"}
    /\ call' = [call EXCEPT ![p] = GarageIdle]
    /\ UNCHANGED <<syncVars, ymmVars, garages, vehicles, nextVehicle, reminders,
                   alerts>>

----------------------------------------------------------------------------
(* VehicleGarageService: price alerts *)

\* the row of vehiclePriceAlert.create
AlertRow(shop, vehicleId, sku, alertType, targetPrice, isActive) ==
    [shop |-> shop, vehicleId |-> vehicleId, turn14Sku |-> sku,
     alertType |-> alertType, targetPrice |-> targetPrice, isActive |-> isActive,
     alertTriggered |-> FALSE, triggeredAt |-> NoTime, lastChecked |-> NoTime]

\* variant: the alerts that fired are read again
PendingAlerts_All(table, shop) ==
    {a \in DOMAIN table : table[a].shop = shop /\ table[a].isActive}

\* findMany({ where: { shop, isActive: true, alertTriggered: false } })
PendingAlerts(table, shop) ==
    {a \in DOMAIN table :
        table[a].shop = shop /\ table[a].isActive /\ ~table[a].alertTriggered}

\* the switch on alert.alertType
ShouldTrigger(alert, product) ==
    CASE alert.alertType = "price_drop" ->
            Leq(product.currentPrice, alert.targetPrice)
      [] alert.alertType = "back_in_stock" -> product.inventoryQuantity > 0
      [] OTHER -> FALSE

\* a scheduled or manual check of the alerts
RequestAlertCheck(p) ==
    /\ call[p].pc = "idle"
    /\ call' = [call EXCEPT ![p] = [pc |-> "alerts", op |-> "alerts"] @@ GarageIdle]
    /\ UNCHANGED <<syncVars, ymmVars, garages, vehicles, nextVehicle, reminders,
                   alerts>>

\* checkPriceAlerts: the findMany of the alerts
FindAlerts(p) ==
    /\ call[p].pc = "alerts"
    /\ LET ids == SeqOfSet(PendingAlerts(alerts, TheShop)) IN
       CallSet(p, [pc |-> "alert", before |-> [alerts |-> alerts],
                   queue |-> [k \in DOMAIN ids |-> [id |-> ids[k]] @@ alerts[ids[k]]],
                   result |-> <<>>, log |-> <<>>])
    /\ UNCHANGED <<syncVars, ymmVars, garages, vehicles, nextVehicle, reminders,
                   alerts>>

\* checkPriceAlerts: the product lookup of one alert and the decision; after
\* the last alert, the return
ReadProduct(p) ==
    /\ call[p].pc = "alert"
    /\ IF call[p].queue = <<>>
       THEN CallReturn(p, call[p].result)
       ELSE LET alert == Head(call[p].queue)
                found == ProductIdOf(TheShop, alert.turn14Sku)
            IN IF found = {}
               THEN CallSet(p, [queue |-> Tail(call[p].queue),
                                log |-> Append(call[p].log,
                                               [alert |-> alert, found |-> FALSE,
                                                trigger |-> FALSE])])
               ELSE LET product == products[Only(found)] IN
                    CallSet(p, [pc |-> "write",
                                log |-> Append(call[p].log,
                                               [alert |-> alert, found |-> TRUE,
                                                product |-> product,
                                                trigger |-> ShouldTrigger(alert,
                                                                          product)])])
    /\ UNCHANGED <<syncVars, ymmVars, garages, vehicles, nextVehicle, reminders,
                   alerts>>

\* checkPriceAlerts: vehiclePriceAlert.update({ where: { id } }) of the alert
WriteAlert(p) ==
    /\ call[p].pc = "write"
    /\ LET entry == call[p].log[Len(call[p].log)]
           id == entry.alert.id
       IN IF id \notin DOMAIN alerts
          THEN /\ CallThrow(p, "Record to update not found")
               /\ UNCHANGED alerts
          ELSE IF entry.trigger
          THEN /\ alerts' = [alerts EXCEPT ![id] =
                                [@ EXCEPT !.alertTriggered = TRUE,
                                          !.triggeredAt = now, !.lastChecked = now]]
               /\ CallSet(p, [pc |-> "alert", queue |-> Tail(call[p].queue),
                              result |-> Append(call[p].result,
                                                [alert |-> entry.alert,
                                                 product |-> entry.product])])
          ELSE /\ alerts' = [alerts EXCEPT ![id] = [@ EXCEPT !.lastChecked = now]]
               /\ CallSet(p, [pc |-> "alert", queue |-> Tail(call[p].queue)])
    /\ UNCHANGED <<syncVars, ymmVars, garages, vehicles, nextVehicle, reminders>>

\* a pricing sync writes a product's prices (the update of syncPricing)
Reprice ==
    /\ \E i \in DOMAIN products, price \in Prices :
          /\ PriceValue(price) # products[i].originalPrice
          /\ products' = ProductUpdate(products, i,
                            PricingData(PriceValue(price),
                                        FinalPrice(PriceValue(price),
                                                   products[i].priceMarkup),
                                        now)).table
    /\ UNCHANGED <<now, config, nextId, jobs, schedules, listings, run, ymmVars,
                   garageVars>>

\* an inventory sync writes a product's quantity (the update of syncInventory)
Restock ==
    /\ \E i \in DOMAIN products, quantity \in Quantities :
          /\ InventoryChanged(quantity, products[i].inventoryQuantity)
          /\ products' = ProductUpdate(products, i,
                                       InventoryData(quantity, now)).table
    /\ UNCHANGED <<now, config, nextId, jobs, schedules, listings, run, ymmVars,
                   garageVars>>

\* validateTurn14Credentials: the test call to the distributor, then
\* saveTurn14Config with isActive true or false; the upsert writes selectedBrands
\* as null, because the data to save carry none
validateTurn14Credentials ==
    /\ \E valid \in BOOLEAN :
          /\ config # [present |-> TRUE, isActive |-> valid, selectedBrands |-> <<>>]
          /\ config' = [present |-> TRUE, isActive |-> valid, selectedBrands |-> <<>>]
    /\ UNCHANGED <<now, products, nextId, jobs, schedules, listings, run,
                   ymmVars, garageVars>>

----------------------------------------------------------------------------
(* Specifications *)

Step(p) ==
    \/ ManualSync(p)
    \/ PollTick(p)
    \/ RunScheduledSync(p)
    \/ createSyncJob(p)
    \/ MarkRunning(p)
    \/ Setup(p)
    \/ SyncItem(p)
    \/ FetchBrand(p)
    \/ ImportItem(p)
    \/ PhaseReturn(p)
    \/ Complete(p)
    \/ Catch(p)
    \/ Finish(p)

\* one caller at a time, asking for single operations
Next ==
    \/ AdvanceClock
    \/ DeleteProduct
    \/ Step(1)

Spec == Init /\ [][Next]_vars

\* one caller at a time, asking for full syncs
NextFull ==
    \/ AdvanceClock
    \/ DeleteProduct
    \/ FullSync(1)
    \/ createSyncJob(1)
    \/ MarkRunning(1)
    \/ Setup(1)
    \/ SyncItem(1)
    \/ FetchBrand(1)
    \/ ImportItem(1)
    \/ PhaseReturn(1)
    \/ Complete(1)
    \/ Catch(1)
    \/ Finish(1)

SpecFull == Init /\ [][NextFull]_vars

\* one caller at a time, while the merchant validates the credentials
NextValidated ==
    \/ Next
    \/ validateTurn14Credentials

SpecValidated == Init /\ [][NextValidated]_vars

\* one caller at a time, syncing single products from the product list
NextSingle ==
    \/ AdvanceClock
    \/ DeleteProduct
    \/ syncSingleProduct(1)
    \/ Setup(1)
    \/ SyncItem(1)
    \/ PhaseReturn(1)
    \/ SingleDone(1)

SpecSingle == Init /\ [][NextSingle]_vars

\* Two merchants: each tracks the SKU A100 and has one compatibility row and one
\* due schedule.
InitShops ==
    /\ now = 0
    /\ config = [present |-> TRUE, isActive |-> TRUE, selectedBrands |-> <<"b1", "b2">>]
    /\ products = (1 :> ProductRow("A100", 5, 10, 20, TRUE, NoTime))
                @@ (2 :> [ProductRow("A100", 5, 10, 20, TRUE, NoTime)
                             EXCEPT !.shop = OtherShop])
    /\ nextId = 3
    /\ jobs = <<>>
    /\ schedules = [i \in {1, 2} |->
                       [shop |-> IF i = 1 THEN TheShop ELSE OtherShop,
                        syncType |-> IF i = 1 THEN "inventory" ELSE "products",
                        frequency |-> "hourly",
                        isActive |-> TRUE, lastRun |-> NoTime,
                        nextRun |-> calculateNextRun("hourly", -1)]]
    /\ listings = <<>>
    /\ run = [p \in Procs |-> Idle]
    /\ feed = [sku \in CompatSkus \cup {"C300"} |->
                  IF sku = "A100" THEN [kind |-> "items", items |-> <<FitsAny, FitsAll>>]
                  ELSE [kind |-> "none", items |-> <<>>]]
    /\ feedChanges = 0
    /\ compat = <<EdgeRow(TheShop, 1, FitsXL), EdgeRow(OtherShop, 2, FitsXL)>>
    /\ ymm = [p \in Procs |-> YmmIdle]
    /\ synced = [sku \in CompatSkus \cup {"C300"} |-> <<>>]
    /\ InitGarage

\* the scheduler runs the due schedules of all shops one after the other, while
\* a session makes one request at a time: a manual inventory sync of the other
\* shop, or a compatibility sync of either shop
NextShops ==
    \/ PollTick(1)
    \/ RunScheduledSync(1)
    \/ createSyncJob(1)
    \/ MarkRunning(1)
    \/ Setup(1)
    \/ SyncItem(1)
    \/ FetchBrand(1)
    \/ ImportItem(1)
    \/ PhaseReturn(1)
    \/ Complete(1)
    \/ Catch(1)
    \/ Finish(1)
    \/ ymm[2].pc = "idle" /\ runManualSync(2, OtherShop, "inventory")
    \/ createSyncJob(2)
    \/ MarkRunning(2)
    \/ Setup(2)
    \/ SyncItem(2)
    \/ PhaseReturn(2)
    \/ Complete(2)
    \/ Catch(2)
    \/ Finish(2)
    \/ \E shop \in {TheShop, OtherShop} : run[2].pc = "idle" /\ RequestOf(2, shop)
    \/ BulkSelect(2)
    \/ BulkNext(2)
    \/ initializeApi(2)
    \/ FindProduct(2)
    \/ getItemCompatibility(2)
    \/ ClearEdges(2)
    \/ CreateEdge(2)
    \/ YmmDone(2)

SpecShops == InitShops /\ [][NextShops]_vars

\* a shop that tracks one product, with both brands selected
InitImport ==
    /\ now = 0
    /\ config = [present |-> TRUE, isActive |-> TRUE, selectedBrands |-> <<"b1", "b2">>]
    /\ \E sku \in {"A100", "B200"} :
          products = (1 :> ProductRow(sku, 5, 10, 20, TRUE, NoTime))
    /\ nextId = 2
    /\ jobs = <<>>
    /\ schedules = <<>>
    /\ listings = <<>>
    /\ run = [p \in Procs |-> Idle]
    /\ InitYmm
    /\ InitGarage

\* one product sync after another
NextImport ==
    \/ SyncProducts(1)
    \/ createSyncJob(1)
    \/ MarkRunning(1)
    \/ Setup(1)
    \/ FetchBrand(1)
    \/ ImportItem(1)
    \/ PhaseReturn(1)
    \/ Complete(1)
    \/ Catch(1)
    \/ Finish(1)

SpecImport == InitImport /\ [][NextImport]_vars

\* a schedule of any frequency, created by createSchedule at midnight
Frequencies == {"hourly", "daily", "weekly", "manual"}

InitSchedule ==
    /\ now = 0
    /\ config = [present |-> TRUE, isActive |-> TRUE, selectedBrands |-> <<>>]
    /\ products = <<>>
    /\ nextId = 1
    /\ jobs = <<>>
    /\ \E f \in Frequencies :
          schedules = (1 :> [shop |-> TheShop, syncType |-> "inventory",
                             frequency |-> f, isActive |-> TRUE,
                             lastRun |-> NoTime,
                             nextRun |-> calculateNextRun(f, 0)])
    /\ listings = <<>>
    /\ run = [p \in Procs |-> Idle]
    /\ InitYmm
    /\ InitGarage

\* an hour passes
PassHour ==
    /\ now < MaxHour
    /\ now' = now + 1
    /\ UNCHANGED <<config, products, nextId, jobs, schedules, listings, run,
                   ymmVars, garageVars>>

\* SyncScheduleManager.markScheduleRun(scheduleId)
MarkRun ==
    /\ \E i \in DOMAIN schedules : schedules' = markScheduleRun(schedules, i, now)
    /\ UNCHANGED <<now, config, products, nextId, jobs, listings, run,
                   ymmVars, garageVars>>

NextSchedule ==
    \/ PassHour
    \/ MarkRun

SpecSchedule == InitSchedule /\ [][NextSchedule]_vars

\* errors.slice(0, 5) of the route action "bulk_import": the one place of the
\* repository that caps a list of per-item errors
ErrorsCap == 5

\* a shop that tracks one product more than ErrorsCap
ManySkus == <<"A100", "B200", "C300", "D400", "E500", "F600">>

InitErrors ==
    /\ now = 0
    /\ config = [present |-> TRUE, isActive |-> TRUE, selectedBrands |-> <<>>]
    /\ products = [i \in 1..(ErrorsCap + 1) |->
                      ProductRow(ManySkus[i], 5, 10, 20, TRUE, NoTime)]
    /\ nextId = ErrorsCap + 2
    /\ jobs = <<>>
    /\ schedules = <<>>
    /\ listings = <<>>
    /\ run = [p \in Procs |-> Idle]
    /\ InitYmm
    /\ InitGarage

\* one manual inventory sync after another
NextErrors ==
    \/ Trigger(1, "inventory")
    \/ createSyncJob(1)
    \/ MarkRunning(1)
    \/ Setup(1)
    \/ SyncItem(1)
    \/ PhaseReturn(1)
    \/ Complete(1)
    \/ Catch(1)
    \/ Finish(1)

SpecErrors == InitErrors /\ [][NextErrors]_vars

\* Callers as the code admits them: a polling tick or a manual trigger may start
\* while another caller is still inside runSync.
InitOverlap ==
    /\ Init
    /\ config = [present |-> TRUE, isActive |-> TRUE, selectedBrands |-> <<"b1", "b2">>]

\* inventory syncs only: one per polling tick for the due schedule, one per
\* manual trigger
NextOverlap ==
    \E p \in Procs :
        \/ PollTick(p)
        \/ Trigger(p, "inventory")
        \/ RunScheduledSync(p)
        \/ createSyncJob(p)
        \/ MarkRunning(p)
        \/ Setup(p)
        \/ SyncItem(p)
        \/ PhaseReturn(p)
        \/ Complete(p)
        \/ Catch(p)
        \/ Finish(p)

SpecOverlap == InitOverlap /\ [][NextOverlap]_vars

\* compatibility syncs, one caller at a time, over any compatibility data
InitCompat ==
    /\ InitSync
    /\ config.selectedBrands # <<>>
    /\ feed \in [CompatSkus -> Answers]
    /\ feedChanges = 0
    /\ compat = <<>>
    /\ ymm = [p \in Procs |-> YmmIdle]
    /\ synced = [sku \in CompatSkus |-> <<>>]
    /\ InitGarage

NextCompat ==
    \/ ChangeFeed
    \/ DeleteProduct
    \/ RequestSync(1)
    \/ RequestBulk(1)
    \/ BulkSelect(1)
    \/ BulkNext(1)
    \/ initializeApi(1)
    \/ FindProduct(1)
    \/ getItemCompatibility(1)
    \/ ClearEdges(1)
    \/ CreateEdge(1)
    \/ YmmDone(1)

SpecCompat == InitCompat /\ [][NextCompat]_vars

\* the rows syncProductCompatibility leaves for a product and a list of items
RECURSIVE SyncedRows(_, _, _)
SyncedRows(table, productId, items) ==
    IF items = <<>> THEN table
    ELSE SyncedRows(CreateEdgeRow(table, products,
                                  EdgeRow(TheShop, productId, Head(items))).table,
                    productId, Tail(items))

\* a garage of two vehicles, and the compatibility rows of both products synced
\* the reminders addVehicle created for the vehicles of a table
RemindersOf(ids) ==
    [k \in 1..(Len(ids) * Len(DefaultReminders)) |->
        [shop |-> TheShop, vehicleId |-> ids[((k - 1) \div Len(DefaultReminders)) + 1],
         type |-> DefaultReminders[((k - 1) % Len(DefaultReminders)) + 1]]]

\* the garage after two addVehicle calls: the first vehicle is the primary one
TwoVehicles ==
    (1 :> VehicleRow(TheShop, TheGarage,
                     [year |-> 2020, make |-> "Ford", model |-> "F-150",
                      submodel |-> "XL"], TRUE))
    @@ (2 :> VehicleRow(TheShop, TheGarage,
                        [year |-> 2020, make |-> "Ford", model |-> "F-150",
                         submodel |-> Null], FALSE))

\* a garage of two vehicles, and the compatibility rows of both products synced
InitLookup ==
    /\ InitSync
    /\ config.present /\ config.selectedBrands # <<>>
    /\ feed = [sku \in CompatSkus |-> [kind |-> "none", items |-> <<>>]]
    /\ feedChanges = 0
    /\ \E l1 \in ItemLists, l2 \in ItemLists :
          compat = SyncedRows(SyncedRows(<<>>, 1, l1), 2, l2)
    /\ ymm = [p \in Procs |-> YmmIdle]
    /\ synced = [sku \in CompatSkus |-> <<>>]
    /\ garages = (TheCustomer :> GarageRow(TheShop, TheCustomer))
    /\ vehicles = TwoVehicles
    /\ nextVehicle = 3
    /\ reminders = RemindersOf(<<1, 2>>)
    /\ alerts = <<>>
    /\ call = [p \in Procs |-> GarageIdle]

\* compatibility checks of one caller, while the merchant deletes products and
\* another caller removes vehicles
NextLookup ==
    \/ DeleteProduct
    \/ RequestCheck(1)
    \/ FindVehicle(1)
    \/ FindExact(1)
    \/ FindUniversal(1)
    \/ CallDone(1)
    \/ RequestRemove(2)
    \/ FindOwned(2)
    \/ DeleteVehicle(2)
    \/ CallDone(2)

SpecLookup == InitLookup /\ [][NextLookup]_vars

\* the alerts of the garage's first vehicle: a price drop of A100 to 12, B200
\* back in stock, and a switched-off price drop of A100
InitAlerts ==
    /\ InitSync
    /\ config.present /\ config.selectedBrands # <<>>
    /\ InitYmm
    /\ garages = (TheCustomer :> GarageRow(TheShop, TheCustomer))
    /\ vehicles = TwoVehicles
    /\ nextVehicle = 3
    /\ reminders = RemindersOf(<<1, 2>>)
    /\ alerts = (1 :> AlertRow(TheShop, 1, "A100", "price_drop", Num(12), TRUE))
              @@ (2 :> AlertRow(TheShop, 1, "B200", "back_in_stock", Num(12), TRUE))
              @@ (3 :> AlertRow(TheShop, 1, "A100", "price_drop", Num(12), FALSE))
    /\ call = [p \in Procs |-> GarageIdle]

\* alert checks one after the other, while syncs rewrite the products and the
\* merchant deletes products
NextAlerts ==
    \/ AdvanceClock
    \/ DeleteProduct
    \/ Reprice
    \/ Restock
    \/ RequestAlertCheck(1)
    \/ FindAlerts(1)
    \/ ReadProduct(1)
    \/ WriteAlert(1)
    \/ CallDone(1)

SpecAlerts == InitAlerts /\ [][NextAlerts]_vars

\* a garage one vehicle short of the limit, the first vehicle the primary one
AlmostFull ==
    [i \in 1..(DefaultMaxVehicles - 1) |->
        VehicleRow(TheShop, TheGarage,
                   [year |-> 2020, make |-> "Ford", model |-> "F-150",
                    submodel |-> IF i = 1 THEN "XL" ELSE Null], i = 1)]

\* a customer without a garage yet, or with a garage one vehicle short of the limit
InitGarageCalls ==
    /\ InitSync
    /\ config.present /\ config.selectedBrands # <<>>
    /\ InitYmm
    /\ \/ garages = <<>> /\ vehicles = <<>> /\ reminders = <<>>
       \/ /\ garages = (TheCustomer :> GarageRow(TheShop, TheCustomer))
          /\ vehicles = AlmostFull
          /\ reminders = RemindersOf([i \in 1..(DefaultMaxVehicles - 1) |-> i])
    /\ nextVehicle = DefaultMaxVehicles
    /\ alerts = <<>>
    /\ call = [p \in Procs |-> GarageIdle]

GarageStep(p) ==
    \/ RequestAdd(p)
    \/ getOrCreateGarage(p)
    \/ CreateGarage(p)
    \/ UnsetPrimary(p)
    \/ CreateVehicle(p)
    \/ CreateReminders(p)
    \/ RequestUpdate(p)
    \/ RequestRemove(p)
    \/ FindOwned(p)
    \/ UnsetOthers(p)
    \/ UpdateVehicle(p)
    \/ DeleteVehicle(p)
    \/ CallDone(p)

\* the garage calls of one customer, one after the other
NextGarage == GarageStep(1)

SpecGarage == InitGarageCalls /\ [][NextGarage]_vars

\* ... with forms that lack a required field among the requests
NextGarageForms ==
    \/ GarageStep(1)
    \/ RequestAddWithoutMake(1)

SpecGarageForms == InitGarageCalls /\ [][NextGarageForms]_vars

\* two requests of the customer may overlap
NextGarageOverlap == \E p \in Procs : GarageStep(p)

\* ... starting before the customer's first vehicle
InitGarageOverlap == InitGarageCalls /\ garages = <<>>

SpecGarageOverlap == InitGarageOverlap /\ [][NextGarageOverlap]_vars

----------------------------------------------------------------------------
(* Properties *)

JobOf(p) == jobs[run[p].jobId]
Ended(p) == run[p].pc \in {"returned", "threw"}
ItemPhase(p) == run[p].phase \in {"inventory", "pricing"}
Counts(r) == <<r.totalItems, r.processedItems, r.successItems, r.failedItems>>

\* C1: in syncInventory and syncPricing an exception raised while processing one
\* product never aborts the batch: no exception leaves the item loop, and the
\* returned result has processedItems = totalItems, successItems + failedItems =
\* processedItems, every selected product attempted exactly once, and one errors
\* entry and syncStatus error for each failing product.
C1_ItemErrorNeverAbortsBatch ==
    \A p \in Procs : ItemPhase(p) =>
        /\ ~(run[p].stage = "items" /\ run[p].exit = "threw")
        /\ run[p].stage = "returned" =>
              /\ run[p].processed = run[p].total
              /\ run[p].success + run[p].failed = run[p].processed
              /\ run[p].attempts = run[p].selected
              /\ Len(run[p].errors) = run[p].failed
              /\ \A k \in 1..Len(run[p].errors) : \A i \in DOMAIN products :
                    products[i].sku = run[p].errors[k].key
                        => products[i].syncStatus = "error"

\* C2: when the dispatched operation returned a result, runSync returns success
\* and the job is completed, has an end time and carries the counts of the result.
C2_CompletedJobCarriesCounts ==
    \A p \in Procs : (Ended(p) /\ run[p].exit = "returned") =>
        /\ run[p].pc = "returned"
        /\ JobOf(p).status = "completed"
        /\ JobOf(p).endTime # NoTime
        /\ Counts(JobOf(p)) = Counts(run[p].results[1])

\* C3: when the dispatched operation threw, runSync leaves the job failed with an
\* end time and the error's message, its item counts still 0, and throws that
\* same error.
C3_ThrownOperationFailsJob ==
    \A p \in Procs : (Ended(p) /\ run[p].exit = "threw") =>
        /\ run[p].pc = "threw"
        /\ run[p].error = run[p].opError
        /\ JobOf(p).status = "failed"
        /\ JobOf(p).endTime # NoTime
        /\ JobOf(p).errorMessage = run[p].opError
        /\ Counts(JobOf(p)) = <<0, 0, 0, 0>>

\* the operation threw after items had already been processed in this call
C3_Witness ==
    \E p \in Procs :
        /\ run[p].pc = "threw" /\ run[p].exit = "threw"
        /\ run[p].processed + SumField(run[p].sub, "processedItems") > 0
        /\ JobOf(p).status = "failed"

ForwardStatus ==
    {<<"pending", "running">>, <<"running", "completed">>, <<"running", "failed">>}

\* C4: a job's status only moves pending -> running -> completed or failed, a
\* finished runSync call leaves its job completed or failed, and a completed or
\* failed job is never modified again.
C4_JobsMoveForwardOnly ==
    /\ [](\A p \in Procs : Ended(p) => JobOf(p).status \in {"completed", "failed"})
    /\ [][/\ Len(jobs') >= Len(jobs)
          /\ \A j \in 1..Len(jobs) :
                /\ jobs[j].status \in {"completed", "failed"} => jobs'[j] = jobs[j]
                /\ \/ jobs'[j].status = jobs[j].status
                   \/ <<jobs[j].status, jobs'[j].status>> \in ForwardStatus]_vars

\* the job table has been written again after its first job had failed
C4_Witness ==
    /\ Len(jobs) = 2
    /\ jobs[1].status = "failed" /\ jobs[1].endTime # NoTime
    /\ jobs[2].status = "failed"

\* C5: when the scheduler has executed a due schedule, the schedule is marked
\* run whatever the outcome: lastRun is the current time, nextRun is recomputed
\* and the schedule is no longer due.
C5_ScheduleMarkedAfterEveryRun ==
    [][\A p \in Procs :
          (run[p].kind = "scheduled" /\ Ended(p) /\ run'[p].pc = "due") =>
              LET s == schedules'[run[p].scheduleId] IN
              /\ s.lastRun = now
              /\ s.nextRun = calculateNextRun(s.frequency, now)
              /\ ~IsDue(s, now')]_vars

InProgress(p) == run[p].pc \notin {"idle", "due"}

\* C6: at no time are two sync runs of the same merchant in progress.
C6_NoOverlappingSyncs ==
    Cardinality({p \in Procs : InProgress(p)}) <= 1

\* C7: a product that was in error when a syncInventory / syncPricing pass
\* started is active again when that pass has returned without any distributor
\* or storefront failure.
C7_ErrorProductsRecover ==
    \A p \in Procs :
        (ItemPhase(p) /\ run[p].stage = "returned" /\ run[p].faults = 0) =>
            \A i \in run[p].errAtStart \cap DOMAIN products :
                products[i].syncStatus = "active"

UniqueProducts ==
    \A i, j \in DOMAIN products :
        (products[i].shop = products[j].shop /\ products[i].sku = products[j].sku)
            => i = j

FullOrder == <<"inventory", "pricing", "products">>

\* C9: fullSync starts its phases in the order inventory, pricing, new-products,
\* and when it has ended, by return or by exception, all three phases have run.
C9_EveryPhaseRuns ==
    \A p \in Procs : run[p].syncType = "full" =>
        /\ run[p].started = SubSeq(FullOrder, 1, Len(run[p].started))
        /\ Ended(p) => run[p].started = FullOrder

\* C10: for a product whose stock the distributor reports, syncInventory calls
\* the storefront inventory update once if the reported quantity differs from
\* the stored one and not at all if it is equal; after a successful item the
\* stored quantity is the reported one; stored 5, reported 0 as the only product
\* gives stored 0, one update and the result 1 / 1 / 0.
C10_InventoryWrittenOnceIfChanged ==
    \A p \in Procs :
        (/\ run[p].phase = "inventory" /\ run[p].last # <<>>
         /\ run[p].last[1].fetch.kind = "items"
         /\ run[p].last[1].fetch.v # Undefined) =>
            LET l == run[p].last[1]
                q == l.fetch.v
            IN
            /\ l.calls = IF q # l.stored THEN 1 ELSE 0
            /\ (l.error = "" /\ l.id \in DOMAIN products)
                  => products[l.id].inventoryQuantity = q
            /\ (run[p].stage = "returned" /\ run[p].total = 1
                    /\ l.stored = 5 /\ q = 0 /\ l.error = "")
                  => /\ run[p].calls = 1
                     /\ run[p].success = 1 /\ run[p].failed = 0

C10_Witness ==
    \E p \in Procs :
        /\ run[p].phase = "inventory" /\ run[p].stage = "returned"
        /\ run[p].total = 1 /\ run[p].success = 1 /\ run[p].failed = 0
        /\ run[p].calls = 1
        /\ run[p].last[1].stored = 5 /\ run[p].last[1].fetch.v = 0
        /\ run[p].last[1].id \in DOMAIN products
        /\ products[run[p].last[1].id].inventoryQuantity = 0

\* C11: syncPricing computes finalPrice = distributorPrice * (1 + markup/100)
\* and calls the storefront price update only for a product whose distributor
\* price or computed final price differs from the stored originalPrice /
\* currentPrice; a run with unchanged distributor prices performs no price update
\* and changes no stored price; with two products at 20% markup, one unchanged
\* and one risen from 10.00 to 12.00, there is exactly one price update and the
\* stored currentPrice of the risen product is 14.40.
C11_PriceWrittenOnlyIfChanged ==
    \A p \in Procs :
        /\ (/\ run[p].phase = "pricing" /\ run[p].last # <<>>
            /\ run[p].last[1].fetch.kind = "items") =>
               LET l == run[p].last[1]
                   newPrice == NewPrice(l.fetch.v, l.row.originalPrice)
                   finalPrice == FinalPrice(newPrice, l.row.priceMarkup)
                   same == /\ newPrice = l.row.originalPrice
                           /\ finalPrice = l.row.currentPrice
               IN
               /\ l.calls = IF same THEN 0 ELSE 1
               /\ (l.error = "" /\ l.id \in DOMAIN products) =>
                     /\ products[l.id].originalPrice = newPrice
                     /\ products[l.id].currentPrice = finalPrice
               /\ (same /\ l.id \in DOMAIN products) =>
                     /\ products[l.id].originalPrice = l.row.originalPrice
                     /\ products[l.id].currentPrice = l.row.currentPrice
        /\ (/\ run[p].phase = "pricing" /\ run[p].stage = "returned"
            /\ run[p].total = 2 /\ run[p].success = 2
            /\ run[p].last[1].fetch = [kind |-> "items", v |-> 12]
            /\ run[p].last[1].row.originalPrice = PriceValue(10)
            /\ run[p].last[1].row.priceMarkup = 20) =>
               \A i, j \in DOMAIN products :
                   (/\ i = run[p].last[1].id /\ j # i
                    /\ products[j].originalPrice = PriceValue(10)
                    /\ products[j].lastSynced = NoTime) =>
                       /\ run[p].calls = 1
                       /\ products[i].currentPrice = Quotient(1440, 100)

----------------------------------------------------------------------------
(* Properties of YMMService *)

\* caller p stands right after a return of syncProductCompatibility
SyncReturned(p) ==
    /\ ymm[p].result # <<>>
    /\ \/ ymm[p].op = "single" /\ ymm[p].pc = "returned"
       \/ ymm[p].op = "bulk" /\ ymm[p].pc = "next"

\* ... and the return before it, for the same product row, was reached with the
\* same distributor data
SecondRun(p) ==
    /\ SyncReturned(p)
    /\ ymm[p].prev # <<>>
    /\ ymm[p].prev[1].answer = ymm[p].answer
    /\ ymm[p].prev[1].productId = ymm[p].productId
    /\ ymm[p].productId \in DOMAIN products

\* C12: syncProductCompatibility run twice in a row on a SKU with unchanged
\* distributor data leaves the product with the same set of edges (keys and
\* isUniversal flags) after the second run as after the first, and both runs
\* return the same processed and created counts.
C12_SecondRunSameEdges ==
    \A p \in Procs :
        SecondRun(p) =>
            /\ synced[ymm[p].sku][1].edges = ymm[p].prev[1].edges
            /\ synced[ymm[p].sku][1].result = ymm[p].prev[1].result
            /\ ymm[p].result = ymm[p].prev[1].result

\* a second run over data with a duplicate key: one row created, one rejected
C12_Witness ==
    /\ SecondRun(1)
    /\ ymm[1].answer.items = <<FitsXL, FitsXL>>
    /\ ymm[1].result = [processed |-> 1, created |-> 1, updated |-> 0]
    /\ Cardinality(EdgesOf(compat, ymm[1].productId)) = 1

\* the entries of errors that a log of outcomes over the selected SKUs asks for
RECURSIVE ErrorSkus(_, _)
ErrorSkus(skus, log) ==
    IF log = <<>> THEN <<>>
    ELSE (IF Head(log) = "threw" THEN <<Head(skus)>> ELSE <<>>)
             \o ErrorSkus(Tail(skus), Tail(log))

\* C13: bulkSyncCompatibility({limit}) processes at most limit active products, one
\* at a time; a product whose syncProductCompatibility throws is counted in failed
\* with one errors entry {sku, error}, the products after it are still processed,
\* and the call returns with processed = successful + failed instead of throwing
\* (limit 2, first succeeds, second throws: processed 2, successful 1, failed 1).
C13_BulkCountsEveryProduct ==
    \A p \in Procs :
        ymm[p].op = "bulk" =>
            LET b == ymm[p].bulk
                done == {k \in DOMAIN ymm[p].log : ymm[p].log[k] = "returned"}
                lost == {k \in DOMAIN ymm[p].log : ymm[p].log[k] = "threw"}
            IN /\ ymm[p].pc # "threw"
               /\ Len(ymm[p].selected) <= ymm[p].limit
               /\ b.processed = Len(ymm[p].log)
               /\ b.processed = b.successful + b.failed
               /\ b.successful = Cardinality(done)
               /\ b.failed = Cardinality(lost)
               /\ Len(b.errors) = b.failed
               /\ [k \in DOMAIN b.errors |-> b.errors[k].sku]
                     = ErrorSkus(ymm[p].selected, ymm[p].log)
               /\ ymm[p].pc \in {"init", "find", "fetch", "clear", "create"} =>
                     /\ ymm[p].sku = ymm[p].selected[b.processed + 1]
                     /\ ymm[p].queue = SubSeq(ymm[p].selected, b.processed + 2,
                                              Len(ymm[p].selected))
               /\ ymm[p].pc = "returned" =>
                     /\ b.processed = Len(ymm[p].selected)
                     /\ ymm[p].result = b
                     /\ (ymm[p].limit = 2 /\ ymm[p].log = <<"returned", "threw">>) =>
                           /\ b.processed = 2 /\ b.successful = 1 /\ b.failed = 1
                           /\ Len(b.errors) = 1
                           /\ b.errors[1].sku = ymm[p].selected[2]

\* limit 2: the first product synced, the second was not found at the distributor
C13_Witness ==
    /\ ymm[1].op = "bulk" /\ ymm[1].pc = "returned" /\ ymm[1].limit = 2
    /\ ymm[1].log = <<"returned", "threw">>
    /\ ymm[1].result.errors = <<[sku |-> "B200", error |-> "Request failed"]>>
    /\ EdgesOf(compat, 1) # {}

----------------------------------------------------------------------------
(* Properties of VehicleGarageService *)

\* C14: checkProductCompatibility(vehicleId, sku) returns compatible=true if an
\* edge of that SKU matches the vehicle's year, make and model (and submodel when
\* the vehicle has one); otherwise compatible=true, flagged universal, if any
\* isUniversal edge exists for that SKU; otherwise compatible=false with a
\* reason; and compatible=false when the vehicle does not exist.
C14_CompatibilityAnswer ==
    \A p \in Procs :
        (call[p].op = "check" /\ call[p].pc = "returned") =>
            LET c == call[p]
                r == c.result
                v == c.before.vehicles[c.vehicleId]
                t == c.before.compat
                ofSku == {i \in DOMAIN t :
                             /\ t[i].productId \in DOMAIN c.before.skus
                             /\ c.before.skus[t[i].productId] = c.sku}
                exact == {i \in ofSku :
                             /\ t[i].year = v.year /\ t[i].make = v.make
                             /\ t[i].model = v.model
                             /\ v.submodel # Null => t[i].submodel = v.submodel}
                universal == {i \in ofSku : t[i].isUniversal}
            IN IF c.vehicleId \notin DOMAIN c.before.vehicles
               THEN ~r.compatible
               ELSE IF exact # {}
               THEN r.compatible /\ r.compatibility \in {t[i] : i \in exact}
               ELSE IF universal # {}
               THEN /\ r.compatible
                    /\ "isUniversal" \in DOMAIN r /\ r.isUniversal
                    /\ r.compatibility \in {t[i] : i \in universal}
               ELSE ~r.compatible /\ "reason" \in DOMAIN r

\* the XL vehicle asks about a product whose only row for its year, make and
\* model has no submodel: the answer comes from the universal row
C14_Witness ==
    /\ call[1].op = "check" /\ call[1].pc = "returned" /\ call[1].vehicleId = 1
    /\ call[1].result.compatible /\ "isUniversal" \in DOMAIN call[1].result
    /\ \E i \in DOMAIN call[1].before.compat :
          /\ call[1].before.compat[i].model = "F-150"
          /\ call[1].before.compat[i].submodel = Null
          /\ call[1].before.skus[call[1].before.compat[i].productId] = call[1].sku

\* the primary vehicles of a garage
Primaries(garageId) == {i \in VehiclesOf(vehicles, garageId) : vehicles[i].isPrimary}

\* C15: in every reachable state of a garage, after any sequence of addVehicle,
\* updateVehicle and removeVehicle calls, at every intermediate point of those
\* calls, and under interleavings of two concurrent calls on the same garage, at
\* most one vehicle of the garage has isPrimary = true.
C15_AtMostOnePrimary == Cardinality(Primaries(TheGarage)) <= 1

\* C16: addVehicle on a garage that already holds maxVehicles vehicles (default 5)
\* fails and changes nothing: the vehicle set, every vehicle's isPrimary flag and
\* the reminders are as before the call; so after any sequence of addVehicle and
\* removeVehicle calls a garage never holds more than maxVehicles vehicles.
C16_FullGarageRejects ==
    /\ Cardinality(VehiclesOf(vehicles, TheGarage)) <= DefaultMaxVehicles
    /\ \A c \in DOMAIN garages : garages[c].maxVehicles = DefaultMaxVehicles
    /\ \A p \in Procs :
          (/\ call[p].op = "add"
           /\ Cardinality(VehiclesOf(call[p].before.vehicles, TheGarage))
                  >= DefaultMaxVehicles) =>
              /\ call[p].pc \in {"garage", "threw"}
              /\ call[p].pc = "threw" => call[p].error = "Vehicle limit reached"
              /\ vehicles = call[p].before.vehicles
              /\ reminders = call[p].before.reminders

\* the sixth vehicle was refused
C16_Witness ==
    /\ call[1].op = "add" /\ call[1].pc = "threw"
    /\ call[1].error = "Vehicle limit reached"
    /\ Cardinality(VehiclesOf(vehicles, TheGarage)) = DefaultMaxVehicles
    /\ Cardinality(Primaries(TheGarage)) = 1

\* what the claim asks of an alert that was read for a product
Due(alert, found, product) ==
    /\ found
    /\ \/ alert.alertType = "price_drop"
          /\ Leq(product.currentPrice, alert.targetPrice)
       \/ alert.alertType = "back_in_stock" /\ product.inventoryQuantity > 0

\* the alerts a call has triggered so far, in order
RECURSIVE TriggeredIn(_)
TriggeredIn(log) ==
    IF log = <<>> THEN <<>>
    ELSE TriggeredIn(SubSeq(log, 1, Len(log) - 1))
             \o (IF log[Len(log)].trigger THEN <<log[Len(log)].alert.id>> ELSE <<>>)

\* every decision of a check is the one the claim asks for, and the alerts
\* returned are those it triggered, none of which had fired before the call
AlertDecisions ==
    \A p \in Procs :
        call[p].op = "alerts" /\ call[p].pc \in {"alert", "write", "returned"} =>
            /\ \A k \in DOMAIN call[p].log :
                  LET entry == call[p].log[k]
                      was == call[p].before.alerts[entry.alert.id]
                  IN /\ was.isActive /\ ~was.alertTriggered
                     /\ entry.trigger <=>
                           Due(was, entry.found,
                               IF entry.found THEN entry.product ELSE <<>>)
            /\ call[p].pc = "returned" =>
                  /\ [k \in DOMAIN call[p].result |-> call[p].result[k].alert.id]
                        = TriggeredIn(call[p].log)
                  /\ {call[p].log[k].alert.id : k \in DOMAIN call[p].log}
                        = {a \in DOMAIN call[p].before.alerts :
                              /\ call[p].before.alerts[a].isActive
                              /\ ~call[p].before.alerts[a].alertTriggered}
                  /\ \A k \in DOMAIN call[p].result :
                        /\ call[p].result[k].alert.id \in DOMAIN alerts
                        /\ alerts[call[p].result[k].alert.id].alertTriggered

\* an alert that has fired keeps its row as it is
TriggeredStays ==
    \A a \in DOMAIN alerts :
        (alerts[a].alertTriggered /\ a \in DOMAIN alerts') => alerts'[a] = alerts[a]

----------------------------------------------------------------------------
(* Properties of the sync engine's error handling *)

\* the operation of caller p read a configuration that was missing or disabled
ConfigUnusable(p) ==
    /\ run[p].started # <<>>
    /\ ~run[p].cfg.present \/ ~run[p].cfg.isActive

\* C18: when the merchant's DistributorConfig is missing or is disabled (isActive
\* = false), syncInventory, syncPricing and syncNewProducts throw before making
\* any distributor or storefront call and change no TrackedProduct.
C18_UnusableConfigThrows ==
    \A p \in Procs :
        ConfigUnusable(p) =>
            /\ run[p].stage = "setup"
            /\ run[p].opError # ""
            /\ run[p].calls = 0
            /\ run[p].attempts = <<>>

\* C19: if the distributor rejects the credentials (AuthError) at any point of a
\* sync run, at authentication or on a per-item distributor call, the run aborts
\* immediately: no further item is processed, the operation throws so that the
\* job is recorded failed, and the merchant's configuration is marked invalid.
C19_AuthErrorAbortsRun ==
    \A p \in Procs :
        run[p].opError = "Authentication failed" =>
            /\ run[p].stage = "setup"
            /\ run[p].attempts = <<>> /\ run[p].calls = 0
            /\ run[p].exit = "threw"
            /\ run[p].pc = "threw" =>
                  /\ JobOf(p).status = "failed"
                  /\ config.present /\ ~config.isActive

\* syncNewProducts of caller p read a configuration without selected brands
NoBrands(p) ==
    /\ run[p].phase = "products"
    /\ run[p].cfg.present
    /\ run[p].cfg.selectedBrands = <<>>

\* the product sync without brands throws in its setup; the one that passed
\* its setup never throws, and ends with a result
BrandsDecideOutcome ==
    \A p \in Procs :
        /\ NoBrands(p) =>
              /\ run[p].stage = "setup"
              /\ run[p].exit = "threw" /\ run[p].opError # ""
              /\ run[p].attempts = <<>> /\ run[p].processed = 0
        /\ (run[p].phase = "products" /\ run[p].stage \in {"items", "returned"}) =>
              /\ run[p].cfg.selectedBrands # <<>>
              /\ run[p].opError = "" /\ run[p].exit # "threw"
              /\ run[p].stage = "returned" =>
                    /\ run[p].sub # <<>>
                    /\ run[p].sub[Len(run[p].sub)].failedItems = run[p].failed

\* while it lasts, no listing is created and no product row inserted or modified
NoBrandsNoWrites ==
    \A p \in Procs :
        NoBrands(p) =>
            /\ listings' = listings
            /\ \A i \in DOMAIN products' :
                  i \in DOMAIN products /\ products'[i] = products[i]

\* C20: syncNewProducts called while the merchant's selected-brand set is empty
\* throws before any item is processed: no storefront listing is created and no
\* TrackedProduct is inserted or modified; once at least one brand is selected and
\* setup succeeded, the call returns a result object and does not throw, whatever
\* per-item or per-brand fetch failures occur.
C20_ProductSyncSetupOrResult == []BrandsDecideOutcome /\ [][NoBrandsNoWrites]_vars

\* a product sync returned although one brand fetch and one item import failed
C20_Witness ==
    /\ run[1].phase = "products" /\ run[1].stage = "returned"
    /\ run[1].exit = "returned"
    /\ Len(run[1].errors) = 2
    /\ run[1].errors[1].key = "b1"
    /\ run[1].failed = 1

----------------------------------------------------------------------------
\* C21: syncInventory and syncPricing called with a filter naming product ids
\* process only those products: totalItems counts named products only, and no
\* product that is not named is selected, fetched or written.
C21_FilterNamesTheProducts ==
    \A p \in Procs :
        (run[p].filter # <<>> /\ run[p].stage \in {"items", "returned"}) =>
            /\ run[p].total <= Cardinality(run[p].filter[1])
            /\ \A k \in 1..Len(run[p].selected) :
                   run[p].selected[k] \in run[p].filter[1]
            /\ \A k \in 1..Len(run[p].attempts) :
                   run[p].attempts[k] \in run[p].filter[1]

\* C22: each sync execution, scheduled or manual, is recorded by exactly one
\* Turn14SyncJob row whether it completes or fails: a run whose row createSyncJob
\* has written adds no further row.
C22_OneJobRowPerRun ==
    [][\A p \in Procs :
          (run[p].jobId # NoJob /\ run'[p] # run[p]) => Len(jobs') = Len(jobs)]_vars

\* C23: the errors list of an operation's result has a fixed maximum length:
\* past the cap a failing item still counts as failed but adds no entry.
C23_ErrorsListIsCapped ==
    \A p \in Procs : Len(run[p].errors) <= ErrorsCap

\* the merchant a step of caller p works for: this.shop of its SyncEngine or
\* YMMService
EngineShop(p) == IF run[p].pc \in {"idle", "due"} THEN run'[p].shop ELSE run[p].shop
ServiceShop(p) == IF ymm[p].pc = "idle" THEN ymm'[p].shop ELSE ymm[p].shop

\* every TrackedProduct, CompatibilityEdge and SyncJob of another merchant than
\* shop is the same before and after the step, and none is created
OthersUntouched(shop) ==
    /\ \A i \in DOMAIN products :
           products[i].shop # shop =>
               i \in DOMAIN products' /\ products'[i] = products[i]
    /\ \A i \in DOMAIN products' \ DOMAIN products : products'[i].shop = shop
    /\ \A i \in DOMAIN jobs :
           jobs[i].shop # shop => i \in DOMAIN jobs' /\ jobs'[i] = jobs[i]
    /\ \A i \in DOMAIN jobs' \ DOMAIN jobs : jobs'[i].shop = shop
    /\ SelectSeq(compat', LAMBDA e : e.shop # shop)
           = SelectSeq(compat, LAMBDA e : e.shop # shop)

\* C24: a sync operation run for merchant A (runSync, syncProductCompatibility,
\* bulkSyncCompatibility) creates, updates and deletes only TrackedProducts,
\* CompatibilityEdges and SyncJobs of A, also when syncs of two merchants interleave.
C24_SyncTouchesOwnMerchantOnly ==
    [][\A p \in Procs :
          /\ run'[p] # run[p] => OthersUntouched(EngineShop(p))
          /\ ymm'[p] # ymm[p] => OthersUntouched(ServiceShop(p))]_vars

\* both merchants' syncs are under way and have written: the scheduler is in the
\* product import of the other shop after its inventory sync of the first, the
\* first shop's edges are being replaced, and each shop has a job row
C24_Witness ==
    /\ run[1].pc = "import" /\ run[1].shop = OtherShop
    /\ ymm[2].pc = "create" /\ ymm[2].shop = TheShop
    /\ \E i, j \in DOMAIN jobs : jobs[i].shop = TheShop /\ jobs[j].shop = OtherShop
    /\ \E i \in DOMAIN products :
           products[i].shop = OtherShop /\ products[i].sku = "C300"
    /\ products[1].inventoryQuantity = 0
    /\ \E k \in DOMAIN compat : compat[k].shop = TheShop /\ compat[k].isUniversal

\* C25: in one syncNewProducts run the number of newly imported products does
\* not exceed settings.maxNewProducts (default 50), however many brands are
\* selected.
C25_ImportsWithinMaxNewProducts ==
    \A p \in Procs :
        run[p].phase = "products" =>
            run[p].success <= MaxNewProducts(run[p].maxNewProducts)

C27_OneListingPerSku ==
    \A i, j \in DOMAIN listings : i # j => listings[i] # listings[j]

\* the stored quantity, prices and time of the last sync of a tracking record
StoredValues(row) ==
    <<row.inventoryQuantity, row.originalPrice, row.currentPrice, row.lastSynced>>

\* C28: in syncInventory and syncPricing the stored quantity and prices of an
\* item are written only after its storefront write succeeded: when the
\* distributor fetch or the storefront write fails, the item's inventoryQuantity,
\* originalPrice, currentPrice and lastSynced stay and only its syncStatus and
\* syncErrors change; no other row changes in the item's pass.
C28_FailedItemKeepsStoredValues ==
    [][\A p \in Procs :
          (/\ run'[p].phase \in {"inventory", "pricing"}
           /\ Len(run'[p].attempts) = Len(run[p].attempts) + 1) =>
              LET e == run'[p].last[1] IN
              /\ \A i \in DOMAIN products \ {e.id} :
                     i \in DOMAIN products' /\ products'[i] = products[i]
              /\ e.id \in DOMAIN products =>
                     /\ e.id \in DOMAIN products'
                     /\ e.error # "" =>
                            products'[e.id] =
                                [products[e.id] EXCEPT !.syncStatus = "error",
                                                       !.syncErrors = e.error]
                     /\ StoredValues(products'[e.id]) # StoredValues(products[e.id])
                            => e.error = "" /\ e.calls = 1]_vars

\* the storefront write of a changed quantity failed: the item is in error with
\* the quantity it had
C28_Witness ==
    /\ run[1].phase = "inventory"
    /\ run[1].last # <<>>
    /\ LET e == run[1].last[1] IN
       /\ e.error = "Storefront request failed"
       /\ e.fetch.kind = "items" /\ e.fetch.v = 0
       /\ e.id \in DOMAIN products
       /\ products[e.id].syncStatus = "error"
       /\ products[e.id].inventoryQuantity = 5
       /\ products[e.id].lastSynced = NoTime

\* the rows of a list of fetched items for a product, one per distinct key
FetchedEdges(shop, productId, items) ==
    {EdgeRow(shop, productId, items[k]) : k \in DOMAIN items}

\* C29: after syncProductCompatibility(sku) returned without throwing, the
\* product's CompatibilityEdges are exactly the rows the distributor returned for
\* the SKU, one edge per distinct year/make/model/submodel key: no earlier edge
\* that is absent from the fetched rows survives and no fetched row is missing.
C29_EdgesAreTheFetchedRows ==
    \A p \in Procs :
        (/\ ymm[p].op = "single"
         /\ ymm[p].pc = "returned"
         /\ ymm[p].productId \in DOMAIN products) =>
            LET rows == SelectSeq(compat, LAMBDA e : e.productId = ymm[p].productId)
                fetched == FetchedEdges(ymm[p].shop, ymm[p].productId,
                                        ymm[p].answer.items)
            IN /\ {rows[k] : k \in DOMAIN rows} = fetched
               /\ Len(rows) = Cardinality({EdgeKey(e) : e \in fetched})

\* C30: when addVehicle or updateVehicle throws, the garage is as before the
\* call: the same vehicles exist and the vehicle that was primary is still
\* primary.
C30_FailedCallLeavesGarage ==
    \A p \in Procs :
        /\ (call[p].pc = "threw" /\ call[p].op = "add") =>
               vehicles = call[p].before.vehicles
        \* updateVehicle: thrown by the ownership check, ahead of every write
        /\ (call[p].pc = "threw" /\ call[p].op = "update") =>
               call[p].error = "Vehicle not found or access denied"

====
